---- MODULE Spec2Model ----
(***************************************************************************)
(* EasyPay autonomous kiosk backend: the money-movement routes (deposit,   *)
(* SEPA transfer, bill payment) over the PostgreSQL store, and the         *)
(* three-factor login / session middleware.                                *)
(*                                                                         *)
(* Amounts are in minor units (stotinki).  The store is PostgreSQL at its  *)
(* default isolation level (READ COMMITTED): a statement on the pool sees  *)
(* committed rows only; an UPDATE of a users row takes that row's lock     *)
(* until the enclosing transaction ends; a CHECK constraint is evaluated   *)
(* by the statement that writes the row.  Statements fail only by          *)
(* violating a constraint of db/schema.sql, except the INSERTs into        *)
(* audit_logs and sessions where a specification lets the store fail.      *)
(***************************************************************************)
EXTENDS Integers, FiniteSets, Sequences, TLC

\* ------------------------------------------------------------------ bounds
MaxReq == 2            \* money-movement requests per behaviour
MaxAmount == 2         \* largest request amount
InitBalance == 2       \* balance of every user before the first request
MaxTime == 3           \* ticks the clock runs

Users == {"u1"}
Requests == 1..MaxReq
Amounts == 1..MaxAmount
Kinds == {"DEPOSIT", "TRANSFER", "BILL_PAYMENT"}

NoReq == 0
NoRow == [status |-> "NONE", user |-> "none", type |-> "NONE", amount |-> 0,
          easypayId |-> "null", error |-> "null", completedAt |-> FALSE]

\* statuses a processor response may carry; the last one is outside the
\* set the transactions table admits
ProcStatuses == {"COMPLETED", "PENDING", "FAILED", "PROCESSING"}
\* failures createSepaTransfer / processBillPayment raise
ProcErrors == {"REJECTED", "TIMEOUT"}

VARIABLES
    balance,        \* users.balance, committed value per user
    transactions,   \* transactions table, committed row per transaction id
    rowLock,        \* holder of the row lock of each users row
    req,            \* per request: the handler's position and locals
    balBefore,      \* history: the balance a request's COMMIT found
    otherDelta,     \* history: balance committed by others since that COMMIT
    isActive,       \* users.is_active
    failedAttempts, \* users.failed_login_attempts
    sessions,       \* sessions table
    now,            \* the clock, in ticks
    login,          \* per worker: the POST /verify handler's position and locals
    issued,         \* tokens returned to clients
    lastVerify,     \* the token and the answer of the latest verifyToken call
    call,           \* per processor call: retryRequest's position and locals
    remotePayments, \* payments the processor has created, per local transaction
    auditDb,        \* whether an INSERT INTO audit_logs succeeds
    txAudit,        \* audit_logs rows written for each money request
    authAudit,      \* audit_logs rows written for each worker's login request
    httpAudit,      \* audit_logs row written by auditMiddleware for the latest response
    validation,     \* the text handed to validateEGN / validateIBAN and the answer
    poll,           \* per poller: the GET /status handler's position and locals
    easypay,        \* the processor's status of the payment of each transaction
    statusCache,    \* redis: the status cached for each processor transaction
    svc,            \* EasyPayService instance: accessToken and tokenExpiry
    clock,          \* Date.now() of the processor client, in milliseconds
    tokenCall,      \* per calling method: position and the token it was given
    tokenEnd,       \* per token the processor granted: the time it expires
    account         \* a users row and its transaction rows, in thousandths

ledgerVars == <<balance, transactions, rowLock, req, balBefore, otherDelta>>
authVars == <<isActive, failedAttempts, sessions, now, login, issued, lastVerify>>
procVars == <<call, remotePayments>>
auditVars == <<auditDb, txAudit, authAudit, httpAudit>>
validVars == <<validation>>
pollVars == <<poll, easypay, statusCache>>
tokenVars == <<svc, clock, tokenCall, tokenEnd>>
decimalVars == <<account>>
extVars == <<procVars, auditVars, validVars, pollVars, tokenVars, decimalVars>>
vars == <<ledgerVars, authVars, extVars>>

\* ------------------------------------------------------------ schema.sql
\* variant: the users table without the balance_positive constraint
BalancePositive_Absent(b) == TRUE

BalancePositive(b) == b >= 0

\* variant: the transactions table without the valid_status constraint
ValidStatus_Any(s) == TRUE

ValidStatus(s) == s \in {"PENDING", "COMPLETED", "FAILED", "CANCELLED"}

\* --------------------------------------------------------------- helpers
\* no Authorization header
NoToken == [userId |-> "none", iat |-> 0, exp |-> 0, sig |-> "none"]
\* a token not signed with JWT_SECRET
ForgedToken == [userId |-> "u1", iat |-> 0, exp |-> MaxTime + 1, sig |-> "forged"]

IdleReq == [pc |-> "idle", kind |-> "DEPOSIT", user |-> "u1", amount |-> 1,
            userBalance |-> 0, ptx |-> NoRow, pdelta |-> 0, proc |-> "none",
            procId |-> "null", resp |-> "none", newBalance |-> 0, token |-> NoToken]

\* a commit of request r on user u, as seen by the requests of u that have
\* committed and not yet read the balance back
NoteCommit(r, u, d) ==
    [q \in Requests |->
        IF q # r /\ req[q].pc = "readback" /\ req[q].user = u
        THEN otherDelta[q] + d ELSE otherDelta[q]]

NewRow(r, type, status) ==
    [status |-> status, user |-> req[r].user, type |-> type,
     amount |-> req[r].amount, easypayId |-> "null", error |-> "null",
     completedAt |-> FALSE]

\* ----------------------------- middleware/auditLogger.js, utils/audit.js
\* createAuditLog: INSERT INTO audit_logs on the pool, outside any
\* transaction of the caller; an error of the INSERT is caught and logged
createAuditLog(log, entry) == IF auditDb THEN Append(log, entry) ELSE log

\* whether the promise of createAuditLog rejects
\* variant: the error of the INSERT is thrown on
AuditThrows_Propagates == ~auditDb

AuditThrows == FALSE

logTransaction(log, transactionType, status) ==
    createAuditLog(log, [action |-> <<"TRANSACTION", transactionType>>,
                         status |-> status])

\* variant: the error message is not passed on
logAuthAttempt_NoReason(log, success, errorMessage) ==
    createAuditLog(log, [action |-> <<"AUTH_ATTEMPT", "null">>,
                         status |-> IF success THEN "SUCCESS" ELSE "FAILURE"])

logAuthAttempt(log, success, errorMessage) ==
    createAuditLog(log, [action |-> <<"AUTH_ATTEMPT", errorMessage>>,
                         status |-> IF success THEN "SUCCESS" ELSE "FAILURE"])

\* fields of a request body and of a response body
BodyFields == {"egn", "pin", "face_image", "amount", "account_number"}
ResponseFields == {"success", "token", "user", "error"}
NoEntry == <<>>

\* auditMiddleware: res.json is wrapped; the entry persisted for a response
\* holds a copy of req.body without pin, password and image, and a copy of
\* the response without token and face_encoding
AuditEntry(body, data) ==
    [action |-> "METHOD path",
     status |-> IF "success" \in data THEN "SUCCESS" ELSE "FAILURE",
     requestData |-> body \ {"pin", "password", "image"},
     responseData |-> data \ {"token", "face_encoding"}]

auditMiddleware(body, data) ==
    /\ httpAudit' = createAuditLog(NoEntry, AuditEntry(body, data))
    /\ UNCHANGED <<auditDb, txAudit, authAudit, procVars, validVars, pollVars, tokenVars, decimalVars, ledgerVars, authVars>>

\* the audit store goes down / comes back
AuditDbFails ==
    /\ auditDb
    /\ auditDb' = FALSE
    /\ UNCHANGED <<txAudit, authAudit, httpAudit, procVars, validVars, pollVars, tokenVars, decimalVars, ledgerVars, authVars>>

AuditDbRecovers ==
    /\ ~auditDb
    /\ auditDb' = TRUE
    /\ UNCHANGED <<txAudit, authAudit, httpAudit, procVars, validVars, pollVars, tokenVars, decimalVars, ledgerVars, authVars>>

\* ------------------------------------------------- config/database.js
\* query('SELECT balance FROM users WHERE id = $1') on the pool: the committed
\* balance, without the writes of any open transaction
\* variant: the SELECT also sees the uncommitted write of the lock holder
SelectBalance_Dirty(u) ==
    balance[u] + (IF rowLock[u] # NoReq THEN req[rowLock[u]].pdelta ELSE 0)

SelectBalance(u) == balance[u]

\* variant: the balance UPDATE is lost at COMMIT
Commit_LostUpdate(r) ==
    /\ req[r].pc = "commit"
    /\ transactions' = [transactions EXCEPT ![r] = req[r].ptx]
    /\ rowLock' = [rowLock EXCEPT ![req[r].user] = NoReq]
    /\ req' = [req EXCEPT ![r].pc = "readback", ![r].ptx = NoRow, ![r].pdelta = 0]
    /\ UNCHANGED <<balance, balBefore, otherDelta, authVars, extVars>>

\* COMMIT of transaction(): the write set becomes visible, the lock is freed
Commit(r) ==
    /\ req[r].pc = "commit"
    /\ LET u == req[r].user IN
       /\ balance' = [balance EXCEPT ![u] = @ + req[r].pdelta]
       /\ transactions' = [transactions EXCEPT ![r] = req[r].ptx]
       /\ rowLock' = [rowLock EXCEPT ![u] = NoReq]
       /\ otherDelta' = NoteCommit(r, u, req[r].pdelta)
    /\ req' = [req EXCEPT ![r].pc = "readback", ![r].ptx = NoRow, ![r].pdelta = 0]
    /\ balBefore' = [balBefore EXCEPT ![r] = balance[req[r].user]]
    /\ UNCHANGED <<authVars, extVars>>

\* ROLLBACK of transaction(): the write set is discarded, the lock is freed,
\* the error reaches the route's outer catch, which answers 500
Rollback(r) ==
    /\ req[r].pc = "rollback"
    /\ rowLock' = [rowLock EXCEPT ![req[r].user] = NoReq]
    /\ req' = [req EXCEPT ![r].pc = "done", ![r].ptx = NoRow, ![r].pdelta = 0,
                          ![r].resp = "Error500"]
    /\ UNCHANGED <<balance, transactions, balBefore, otherDelta, authVars, extVars>>

\* ------------------------------------------------------ request arrival
\* requests are numbered in order of arrival
Arrive(r, k, u, a) ==
    /\ req[r].pc = "idle"
    /\ IF r = 1 THEN TRUE ELSE req[r - 1].pc # "idle"
    /\ req' = [req EXCEPT ![r] = [IdleReq EXCEPT !.pc = "start", !.kind = k,
                                                 !.user = u, !.amount = a]]
    /\ UNCHANGED <<balance, transactions, rowLock, balBefore, otherDelta, authVars, extVars>>

\* ------------------------------------------ routes/deposits.js POST /record
\* variant: the row is inserted PENDING and never completed
DepositRecord_Pending(r) ==
    /\ req[r].pc = "start" /\ req[r].kind = "DEPOSIT"
    /\ rowLock[req[r].user] = NoReq
    /\ rowLock' = [rowLock EXCEPT ![req[r].user] = r]
    /\ req' = [req EXCEPT ![r].pc = "commit",
                          ![r].ptx = NewRow(r, "DEPOSIT", "PENDING"),
                          ![r].pdelta = req[r].amount]
    /\ UNCHANGED <<balance, transactions, balBefore, otherDelta, authVars, extVars>>

\* INSERT (status COMPLETED), UPDATE users balance + amount, UPDATE
\* completed_at, all inside transaction()
DepositRecord(r) ==
    /\ req[r].pc = "start" /\ req[r].kind = "DEPOSIT"
    /\ rowLock[req[r].user] = NoReq
    /\ rowLock' = [rowLock EXCEPT ![req[r].user] = r]
    /\ req' = [req EXCEPT ![r].pc = "commit",
                          ![r].ptx = [NewRow(r, "DEPOSIT", "COMPLETED")
                                        EXCEPT !.completedAt = TRUE],
                          ![r].pdelta = req[r].amount]
    /\ UNCHANGED <<balance, transactions, balBefore, otherDelta, authVars, extVars>>

\* after the commit: for a deposit logTransaction SUCCESS; SELECT balance,
\* then res.json.  An exception goes to the route's outer catch (500).
ReadBack(r) ==
    /\ req[r].pc = "readback"
    /\ txAudit' = IF req[r].kind = "DEPOSIT"
                  THEN [txAudit EXCEPT ![r] = logTransaction(@, "DEPOSIT", "SUCCESS")]
                  ELSE txAudit
    /\ req' = IF req[r].kind = "DEPOSIT" /\ AuditThrows
              THEN [req EXCEPT ![r].pc = "done", ![r].resp = "Error500"]
              ELSE [req EXCEPT ![r].pc = "done", ![r].resp = "OK200",
                               ![r].newBalance = SelectBalance(req[r].user)]
    /\ balBefore' = [balBefore EXCEPT ![r] = 0]
    /\ otherDelta' = [otherDelta EXCEPT ![r] = 0]
    /\ UNCHANGED <<balance, transactions, rowLock, authVars, procVars, validVars, pollVars, tokenVars, decimalVars, auditDb, authAudit, httpAudit>>

\* ------------------- routes/deposits.js POST /send, routes/bills.js POST /pay
\* SELECT account_number, balance; the sufficient-balance check; for a bill
\* payment the provider lookup
\* variant: the check is skipped
SufficientBalance_Skipped(bal, amount) == TRUE

SufficientBalance(bal, amount) == ~(bal < amount)

CheckBalance(r, providerActive) ==
    /\ req[r].pc = "start" /\ req[r].kind \in {"TRANSFER", "BILL_PAYMENT"}
    /\ req[r].kind = "TRANSFER" => providerActive
    /\ LET bal == SelectBalance(req[r].user) IN
       req' = [req EXCEPT
                 ![r].userBalance = bal,
                 ![r].pc = IF SufficientBalance(bal, req[r].amount) /\ providerActive
                           THEN "debit" ELSE "done",
                 ![r].resp = IF ~SufficientBalance(bal, req[r].amount)
                             THEN "InsufficientBalance400"
                             ELSE IF ~providerActive THEN "ProviderNotFound404"
                             ELSE "none"]
    /\ UNCHANGED <<balance, transactions, rowLock, balBefore, otherDelta, authVars, extVars>>

\* BEGIN, INSERT (status PENDING), UPDATE users SET balance = balance - amount.
\* The UPDATE waits for the row lock and then works on the committed balance;
\* a result that violates balance_positive aborts the statement, and the
\* error leaves transaction() through ROLLBACK.
Debit(r) ==
    /\ req[r].pc = "debit"
    /\ LET u == req[r].user IN
       /\ rowLock[u] = NoReq
       /\ IF BalancePositive(balance[u] - req[r].amount)
          THEN /\ rowLock' = [rowLock EXCEPT ![u] = r]
               /\ req' = [req EXCEPT ![r].pc = "call",
                                     ![r].ptx = NewRow(r, req[r].kind, "PENDING"),
                                     ![r].pdelta = 0 - req[r].amount]
          ELSE /\ rowLock' = rowLock
               /\ req' = [req EXCEPT ![r].pc = "done", ![r].resp = "Error500"]
    /\ UNCHANGED <<balance, transactions, balBefore, otherDelta, authVars, extVars>>

\* createSepaTransfer / processBillPayment: the processor's final answer, a
\* response with its status and transaction_id fields or an error.  The
\* processor keeps the payment with the status it answered.
ProcessorCall(r, outcome, id) ==
    /\ req[r].pc = "call"
    /\ req' = [req EXCEPT ![r].proc = outcome, ![r].pc = "called",
                          ![r].procId = IF outcome \in ProcStatuses THEN id ELSE "null"]
    /\ easypay' = IF outcome \in ProcStatuses
                  THEN [easypay EXCEPT ![r] = outcome] ELSE easypay
    /\ UNCHANGED <<balance, transactions, rowLock, balBefore, otherDelta, authVars,
                   procVars, auditVars, validVars, tokenVars, decimalVars, poll, statusCache>>

\* UPDATE transactions SET status = result.status, easypay_transaction_id...
\* A status outside valid_status aborts the statement inside the try block;
\* the catch block's own UPDATE then fails on the aborted transaction.
\* Then logTransaction SUCCESS, still inside the try block: an exception of
\* it would reach the same catch block and leave through ROLLBACK.
UpdateWithEasyPay(r) ==
    /\ req[r].pc = "called" /\ req[r].proc \in ProcStatuses
    /\ IF ValidStatus(req[r].proc)
       THEN /\ txAudit' = [txAudit EXCEPT ![r] = logTransaction(@, req[r].kind, "SUCCESS")]
            /\ req' = IF AuditThrows
                      THEN [req EXCEPT ![r].pc = "rollback"]
                      ELSE [req EXCEPT ![r].pc = "commit",
                                       ![r].ptx = [@ EXCEPT !.status = req[r].proc,
                                                            !.easypayId = req[r].procId,
                                                            !.completedAt = TRUE]]
       ELSE /\ txAudit' = txAudit
            /\ req' = [req EXCEPT ![r].pc = "rollback"]
    /\ UNCHANGED <<balance, transactions, rowLock, balBefore, otherDelta,
                   authVars, procVars, validVars, pollVars, tokenVars, decimalVars, auditDb, authAudit, httpAudit>>

\* variant: the catch block marks the row but does not credit the amount back
CatchEasyPayError_NoCredit(r) ==
    /\ req[r].pc = "called" /\ req[r].proc \in ProcErrors
    /\ req' = [req EXCEPT ![r].pc = "rollback",
                          ![r].ptx = [@ EXCEPT !.status = "FAILED",
                                               !.error = "message"]]
    /\ txAudit' = [txAudit EXCEPT ![r] = logTransaction(@, req[r].kind, "FAILURE")]
    /\ UNCHANGED <<balance, transactions, rowLock, balBefore, otherDelta,
                   authVars, procVars, validVars, pollVars, tokenVars, decimalVars, auditDb, authAudit, httpAudit>>

\* catch (easypayError): credit the amount back, mark the row FAILED with
\* the error message, logTransaction FAILURE, rethrow
CatchEasyPayError(r) ==
    /\ req[r].pc = "called" /\ req[r].proc \in ProcErrors
    /\ req' = [req EXCEPT ![r].pc = "rollback",
                          ![r].pdelta = @ + req[r].amount,
                          ![r].ptx = [@ EXCEPT !.status = "FAILED",
                                               !.error = "message"]]
    /\ txAudit' = [txAudit EXCEPT ![r] = logTransaction(@, req[r].kind, "FAILURE")]
    /\ UNCHANGED <<balance, transactions, rowLock, balBefore, otherDelta,
                   authVars, procVars, validVars, pollVars, tokenVars, decimalVars, auditDb, authAudit, httpAudit>>

\* =================================================== authentication
NumWorkers == 2        \* login requests handled at the same time
TicksPerHour == 2      \* clock ticks in one hour

LOCK_THRESHOLD == 5                  \* failed attempts that lock the account
JWT_EXPIRES_IN == 1 * TicksPerHour   \* '1h'
SESSION_TTL == 1 * TicksPerHour      \* expiresAt.getHours() + 1

Workers == 1..NumWorkers
NoSuchEgn == "0000000000"
Egns == Users \cup {NoSuchEgn}
Pins == {"1234", "9999"}

\* bcryptjs: hash at registration, compare at login
BcryptHash(pin) == <<"bcrypt", pin>>
BcryptCompare(pin, hash) == BcryptHash(pin) = hash
\* users.pin_hash: every user registered with PIN 1234
PinHash == [u \in Users |-> BcryptHash("1234")]

\* -------------------------------------------------- middleware/auth.js
generateToken(userId, t) ==
    [userId |-> userId, iat |-> t, exp |-> t + JWT_EXPIRES_IN, sig |-> "JWT_SECRET"]

\* every token a client can present: those generateToken can mint, and a forged one
Tokens == {generateToken(u, t) : u \in Users, t \in 0..MaxTime} \cup {ForgedToken}

\* jwt.verify: signature and expiry
\* variant: the expiry is not looked at
JwtVerify_IgnoreExpiry(token, t) == token.sig = "JWT_SECRET"

JwtVerify(token, t) == token.sig = "JWT_SECRET" /\ t < token.exp

\* crypto.createHash('sha256').update(token).digest('hex')
TokenHash(token) == <<"sha256", token>>

\* the rows verifyToken's SELECT returns for a decoded token
SessionRows(token, t) ==
    {s \in sessions : s.user = token.userId /\ s.expiresAt > t}

\* ORDER BY created_at DESC LIMIT 1
NewestSession(rows) ==
    CHOOSE s \in rows : \A o \in rows : o.expiresAt <= s.expiresAt

\* the answer of verifyToken: 401 without a Bearer header, 401 when
\* jwt.verify throws, 401 without an unexpired session of the user, 403 for a
\* deactivated user, otherwise next()
VerifyTokenResult(token) ==
    IF token = NoToken THEN "401"
    ELSE IF ~JwtVerify(token, now) THEN "401"
    ELSE IF SessionRows(token, now) = {} THEN "401"
    ELSE IF ~isActive[token.userId] THEN "403"
    ELSE "next"

\* UPDATE sessions SET last_activity_at = NOW() on the session selected
TouchSession(token) ==
    LET s == NewestSession(SessionRows(token, now))
    IN (sessions \ {s}) \cup {[s EXCEPT !.lastActivity = now]}

verifyToken(token) ==
    LET result == VerifyTokenResult(token)
    IN /\ token \in issued \cup {ForgedToken}
       /\ lastVerify' = [token |-> token, result |-> result]
       /\ sessions' = IF result = "next" THEN TouchSession(token) ELSE sessions
       /\ UNCHANGED <<isActive, failedAttempts, now, login, issued, ledgerVars, extVars>>

\* createSession: INSERT INTO sessions; an error of the INSERT is caught and
\* logged, and the function returns false instead of true
createSession(userId, token, t, inserted) ==
    IF inserted
    THEN sessions \cup {[user |-> userId, tokenHash |-> TokenHash(token),
                          expiresAt |-> t + SESSION_TTL,
                          lastActivity |-> t]}
    ELSE sessions

logout(userId) ==
    {s \in sessions : s.user # userId}

\* ------------------------------------------ routes/auth.js POST /logout
Logout(token) ==
    /\ token \in issued \cup {ForgedToken}
    /\ sessions' = IF JwtVerify(token, now) THEN logout(token.userId) ELSE sessions
    /\ UNCHANGED <<isActive, failedAttempts, now, login, issued, lastVerify, ledgerVars, extVars>>

\* ------------------------------------------ routes/auth.js POST /verify
IdleLogin == [pc |-> "idle", egn |-> NoSuchEgn, pin |-> "1234", face |-> FALSE,
              found |-> FALSE, active |-> FALSE, locked |-> FALSE,
              balance |-> 0, faceResult |-> "none", resp |-> "none", token |-> NoToken,
              logged |-> FALSE]

LoginArrive(w, egn, pin, face) ==
    /\ login[w].pc \in {"idle", "done"}
    /\ login' = [login EXCEPT ![w] = [IdleLogin EXCEPT !.pc = "start", !.egn = egn,
                                                       !.pin = pin, !.face = face]]
    /\ authAudit' = [authAudit EXCEPT ![w] = <<>>]
    /\ UNCHANGED <<isActive, failedAttempts, sessions, now, issued, lastVerify,
                   ledgerVars, procVars, validVars, pollVars, tokenVars, decimalVars, auditDb, txAudit, httpAudit>>

\* variant: the comparison is strict
AccountLocked_Strict(failed) == failed > LOCK_THRESHOLD

AccountLocked(failed) == failed >= LOCK_THRESHOLD

\* where the handler goes after bcrypt.compare: the PIN branch first, then
\* the face branch if an image was sent, then the reset
\* variant: the image is sent to the verifier before the PIN is looked at
AfterPin_FaceFirst(pinValid, face) ==
    IF face THEN "face" ELSE IF ~pinValid THEN "pinFailed" ELSE "reset"

AfterPin(pinValid, face) ==
    IF ~pinValid THEN "pinFailed" ELSE IF face THEN "face" ELSE "reset"

\* SELECT * FROM users WHERE egn, the active check, the lock check and
\* bcrypt.compare, all on the row that SELECT returned
LookupUser(w) ==
    /\ login[w].pc = "start"
    /\ LET egn == login[w].egn
           found == egn \in Users
           active == found /\ isActive[egn]
           failed == IF found THEN failedAttempts[egn] ELSE 0
           pinValid == found /\ BcryptCompare(login[w].pin, PinHash[egn])
           row == [login[w] EXCEPT !.found = found, !.active = active,
                                   !.locked = found /\ AccountLocked(failed),
                                   !.balance = IF found THEN SelectBalance(egn) ELSE 0]
           refusal == IF ~found THEN "User not found"
                      ELSE IF ~active THEN "Account deactivated"
                      ELSE IF AccountLocked(failed) THEN "Account locked"
                      ELSE "none"
       IN /\ login' = [login EXCEPT ![w] =
             IF refusal # "none" /\ AuditThrows
             THEN [row EXCEPT !.pc = "done", !.resp = "Error500"]
             ELSE IF ~found THEN [row EXCEPT !.pc = "done", !.resp = "InvalidCredentials401"]
             ELSE IF ~active THEN [row EXCEPT !.pc = "done", !.resp = "Deactivated403"]
             ELSE IF AccountLocked(failed)
                  THEN [row EXCEPT !.pc = "done", !.resp = "AccountLocked403"]
             ELSE [row EXCEPT !.pc = AfterPin(pinValid, login[w].face)]]
          /\ authAudit' = IF refusal # "none"
                          THEN [authAudit EXCEPT ![w] = logAuthAttempt(@, FALSE, refusal)]
                          ELSE authAudit
    /\ UNCHANGED <<isActive, failedAttempts, sessions, now, issued, lastVerify,
                   ledgerVars, procVars, validVars, pollVars, tokenVars, decimalVars, auditDb, txAudit, httpAudit>>

\* UPDATE users SET failed_login_attempts = failed_login_attempts + 1,
\* logAuthAttempt, then the 401 answer of the PIN or of the face branch
IncrementFailed(w) ==
    /\ login[w].pc \in {"pinFailed", "faceFailed"}
    /\ failedAttempts' = [failedAttempts EXCEPT ![login[w].egn] = @ + 1]
    /\ authAudit' = [authAudit EXCEPT ![w] =
                       logAuthAttempt(@, FALSE, IF login[w].pc = "pinFailed"
                                                THEN "Invalid PIN"
                                                ELSE "Face verification failed")]
    /\ login' = [login EXCEPT ![w].pc = "done",
                              ![w].resp = IF AuditThrows THEN "Error500"
                                          ELSE IF login[w].pc = "pinFailed"
                                          THEN "InvalidCredentials401"
                                          ELSE "FaceFailed401"]
    /\ UNCHANGED <<isActive, sessions, now, issued, lastVerify,
                   ledgerVars, procVars, validVars, pollVars, tokenVars, decimalVars, auditDb, txAudit, httpAudit>>

\* verifyFace: the verifier answers verified, answers not verified, or the
\* call throws and the catch block lets the login proceed
\* variant: the verifier's answer is not looked at
FaceAccepted_Unchecked(result) == TRUE

FaceAccepted(result) == result # "rejected"

VerifyFace(w, result) ==
    /\ login[w].pc = "face"
    /\ login' = [login EXCEPT ![w].faceResult = result,
                              ![w].pc = IF FaceAccepted(result) THEN "reset"
                                        ELSE "faceFailed"]
    /\ UNCHANGED <<isActive, failedAttempts, sessions, now, issued, lastVerify, ledgerVars, extVars>>

\* UPDATE users SET failed_login_attempts = 0, last_login_at = NOW()
ResetFailed(w) ==
    /\ login[w].pc = "reset"
    /\ failedAttempts' = [failedAttempts EXCEPT ![login[w].egn] = 0]
    /\ login' = [login EXCEPT ![w].pc = "session"]
    /\ UNCHANGED <<isActive, sessions, now, issued, lastVerify, ledgerVars, extVars>>

\* generateToken, await createSession (its return value is not looked at),
\* logAuthAttempt, res.json with the token
IssueToken(w, inserted) ==
    /\ login[w].pc = "session"
    /\ LET token == generateToken(login[w].egn, now) IN
       /\ sessions' = createSession(login[w].egn, token, now, inserted)
       /\ authAudit' = [authAudit EXCEPT ![w] = logAuthAttempt(@, TRUE, "null")]
       /\ IF AuditThrows
          THEN /\ issued' = issued
               /\ login' = [login EXCEPT ![w].pc = "done", ![w].resp = "Error500"]
          ELSE /\ issued' = issued \cup {token}
               /\ login' = [login EXCEPT ![w].pc = "done", ![w].resp = "OK200",
                                         ![w].token = token]
    /\ UNCHANGED <<isActive, failedAttempts, now, lastVerify,
                   ledgerVars, procVars, validVars, pollVars, tokenVars, decimalVars, auditDb, txAudit, httpAudit>>

\* the body of a login request and of its answer
LoginBody(w) == {"egn", "pin"} \cup (IF login[w].face THEN {"face_image"} ELSE {})
LoginData(w) == IF login[w].resp = "OK200" THEN {"success", "token", "user"}
                ELSE {"error"}

\* res.json of a login answer is the wrapper auditMiddleware installed: its
\* createAuditLog is started without await and ends after the answer is sent
LoginResponseAudit(w) ==
    /\ login[w].pc = "done" /\ ~login[w].logged
    /\ httpAudit' = createAuditLog(NoEntry, AuditEntry(LoginBody(w), LoginData(w)))
    /\ login' = [login EXCEPT ![w].logged = TRUE]
    /\ UNCHANGED <<isActive, failedAttempts, sessions, now, issued, lastVerify,
                   ledgerVars, procVars, validVars, pollVars, tokenVars, decimalVars, auditDb, txAudit, authAudit>>

\* ------------------------------------ routes/admin.js deactivate / activate
Deactivate(u) ==
    /\ isActive' = [isActive EXCEPT ![u] = FALSE]
    /\ UNCHANGED <<failedAttempts, sessions, now, login, issued, lastVerify, ledgerVars, extVars>>

Activate(u) ==
    /\ isActive' = [isActive EXCEPT ![u] = TRUE]
    /\ failedAttempts' = [failedAttempts EXCEPT ![u] = 0]
    /\ UNCHANGED <<sessions, now, login, issued, lastVerify, ledgerVars, extVars>>

\* NOW() advances
Tick ==
    /\ now < MaxTime
    /\ now' = now + 1
    /\ UNCHANGED <<isActive, failedAttempts, sessions, login, issued, lastVerify, ledgerVars, extVars>>

\* =========================================== services/easypay-service.js
NumCalls == 1          \* processor calls per behaviour

MAX_RETRIES == 3
RETRY_DELAY == 1000    \* milliseconds

Calls == 1..NumCalls
\* the transaction id the route made with uuidv4() for call c
TransactionId(c) == <<"uuid", c>>
NoReference == <<"none">>

\* how one HTTP request to the processor ends: answered 2xx; carried out by
\* the processor but the answer is lost in a timeout; not carried out
\* because of a timeout or a 5xx; refused with a 4xx
AttemptOutcomes == {"ok", "lostAnswer", "transient", "refused4xx"}
\* outcomes in which the processor has carried the request out
Processed == {"ok", "lostAnswer"}

IdleCall == [pc |-> "idle", kind |-> "TRANSFER", reference |-> NoReference,
             i |-> 0, outcomes |-> <<>>, delays |-> <<>>, result |-> "none"]

\* createSepaTransfer: transferData carries reference, the transaction id
\* the route passes
createSepaTransfer(c) ==
    /\ call[c].pc = "idle"
    /\ call' = [call EXCEPT ![c] = [IdleCall EXCEPT !.pc = "request",
                                                    !.kind = "TRANSFER",
                                                    !.reference = TransactionId(c)]]
    /\ UNCHANGED <<remotePayments, auditVars, validVars, pollVars, tokenVars, decimalVars, ledgerVars, authVars>>

\* processBillPayment: paymentData has no reference field
processBillPayment(c) ==
    /\ call[c].pc = "idle"
    /\ call' = [call EXCEPT ![c] = [IdleCall EXCEPT !.pc = "request",
                                                    !.kind = "BILL_PAYMENT",
                                                    !.reference = NoReference]]
    /\ UNCHANGED <<remotePayments, auditVars, validVars, pollVars, tokenVars, decimalVars, ledgerVars, authVars>>

\* the processor: a request that repeats the reference of a payment it has
\* already made for that transaction makes no second payment
ProcessorReceives(c, outcome) ==
    IF outcome \notin Processed THEN remotePayments[c]
    ELSE IF call[c].reference = TransactionId(c) /\ remotePayments[c] >= 1
         THEN remotePayments[c]
         ELSE remotePayments[c] + 1

\* whether retryRequest tries again after a failed attempt: every error is
\* caught alike and only the attempt count ends the loop
Retryable(outcome, i) == i < MAX_RETRIES - 1

\* the delay before the next attempt
\* variant: the same delay before every attempt
Backoff_Constant(i) == RETRY_DELAY

Backoff(i) == RETRY_DELAY * 2 ^ i

\* one pass of retryRequest's loop: requestFn(), then return, throw, or
\* compute the delay and start waiting
RetryRequest(c, outcome) ==
    /\ call[c].pc = "request"
    /\ remotePayments' = [remotePayments EXCEPT ![c] = ProcessorReceives(c, outcome)]
    /\ LET i == call[c].i
           outs == Append(call[c].outcomes, outcome)
       IN call' = [call EXCEPT
                     ![c].outcomes = outs,
                     ![c].pc = IF outcome = "ok" THEN "returned"
                               ELSE IF Retryable(outcome, i) THEN "waiting"
                               ELSE "thrown",
                     ![c].result = IF outcome = "ok" THEN "ok"
                                   ELSE IF Retryable(outcome, i) THEN "none"
                                   ELSE outcome,
                     ![c].delays = IF outcome # "ok" /\ Retryable(outcome, i)
                                   THEN Append(@, Backoff(i)) ELSE @]
    /\ UNCHANGED <<auditVars, validVars, pollVars, tokenVars, decimalVars, ledgerVars, authVars>>

\* setTimeout fires; the loop goes on with i + 1
RetryWake(c) ==
    /\ call[c].pc = "waiting"
    /\ call' = [call EXCEPT ![c].pc = "request", ![c].i = @ + 1]
    /\ UNCHANGED <<remotePayments, auditVars, validVars, pollVars, tokenVars, decimalVars, ledgerVars, authVars>>

ProcInit ==
    /\ call = [c \in Calls |-> IdleCall]
    /\ remotePayments = [c \in Calls |-> 0]

ProcNext ==
    \/ \E c \in Calls : createSepaTransfer(c)
    \/ \E c \in Calls : processBillPayment(c)
    \/ \E c \in Calls, o \in AttemptOutcomes : RetryRequest(c, o)
    \/ \E c \in Calls : RetryWake(c)

\* ================================ middleware/validation: validateEGN, validateIBAN
MaxDigit == 3          \* largest digit in the varied positions of a submitted text

\* characters
Digit == <<"0", "1", "2", "3", "4", "5", "6", "7", "8", "9">>
Upper == <<"A", "B", "C", "D", "E", "F", "G", "H", "I", "J", "K", "L", "M",
           "N", "O", "P", "Q", "R", "S", "T", "U", "V", "W", "X", "Y", "Z">>
Lower == <<"a", "b", "c", "d", "e", "f", "g", "h", "i", "j", "k", "l", "m",
           "n", "o", "p", "q", "r", "s", "t", "u", "v", "w", "x", "y", "z">>
IsDigit(ch) == \E k \in 1..10 : Digit[k] = ch
IsUpper(ch) == \E k \in 1..26 : Upper[k] = ch
IsLower(ch) == \E k \in 1..26 : Lower[k] = ch
\* parseInt of one digit
ParseDigit(ch) == (CHOOSE k \in 1..10 : Digit[k] = ch) - 1
\* char.charCodeAt(0) - 55
LetterNumber(ch) == (CHOOSE k \in 1..26 : Upper[k] = ch) + 9
\* (n).toString() for 0 <= n < 100
ToDigits(n) == IF n < 10 THEN <<Digit[n + 1]>>
               ELSE <<Digit[(n \div 10) + 1], Digit[(n % 10) + 1]>>

weights == <<2, 4, 8, 5, 10, 9, 7, 3, 6>>

RECURSIVE WeightedSum(_, _)
WeightedSum(egn, i) ==
    IF i > 9 THEN 0 ELSE ParseDigit(egn[i]) * weights[i] + WeightedSum(egn, i + 1)

validateEGN(egn) ==
    IF ~(Len(egn) = 10 /\ \A i \in 1..10 : IsDigit(egn[i])) THEN FALSE
    ELSE LET sum == WeightedSum(egn, 1)
             checksum == IF sum % 11 = 10 THEN 0 ELSE sum % 11
         IN checksum = ParseDigit(egn[10])

\* iban.replace(/\s/g, '').toUpperCase()
RECURSIVE CleanIBAN(_)
CleanIBAN(iban) ==
    IF iban = <<>> THEN <<>>
    ELSE LET ch == Head(iban)
             rest == CleanIBAN(Tail(iban))
         IN IF ch = " " THEN rest
            ELSE IF IsLower(ch)
                 THEN <<Upper[CHOOSE k \in 1..26 : Lower[k] = ch]>> \o rest
                 ELSE <<ch>> \o rest

\* /^BG\d{2}[A-Z0-9]{4}\d{14}$/
MatchesBulgarianFormat(t) ==
    /\ Len(t) = 22
    /\ t[1] = "B" /\ t[2] = "G"
    /\ \A i \in 3..4 : IsDigit(t[i])
    /\ \A i \in 5..8 : IsDigit(t[i]) \/ IsUpper(t[i])
    /\ \A i \in 9..22 : IsDigit(t[i])

\* rearranged.replace(/[A-Z]/g, char => (char.charCodeAt(0) - 55).toString())
RECURSIVE NumericString(_)
NumericString(t) ==
    IF t = <<>> THEN <<>>
    ELSE (IF IsUpper(Head(t)) THEN ToDigits(LetterNumber(Head(t))) ELSE <<Head(t)>>)
         \o NumericString(Tail(t))

\* the loop over numericString: remainder is a string, kept here as its
\* value and its length; once it is 9 characters long it is replaced by the
\* digits of its value mod 97
RECURSIVE Mod97Loop(_, _, _)
Mod97Loop(numericString, value, length) ==
    IF numericString = <<>> THEN value
    ELSE LET v == value * 10 + ParseDigit(Head(numericString))
             l == length + 1
         IN IF l >= 9
            THEN Mod97Loop(Tail(numericString), v % 97, Len(ToDigits(v % 97)))
            ELSE Mod97Loop(Tail(numericString), v, l)

validateIBAN(iban) ==
    LET cleanedIBAN == CleanIBAN(iban) IN
    IF ~MatchesBulgarianFormat(cleanedIBAN) THEN FALSE
    ELSE LET rearranged == SubSeq(cleanedIBAN, 5, 22) \o SubSeq(cleanedIBAN, 1, 4)
         IN Mod97Loop(NumericString(rearranged), 0, 0) % 97 = 1

\* texts a client may submit as identity number: two dates of birth, the
\* next three digits and the check digit varied; a text that is too short
\* and one with a letter
VariedDigits == {Digit[d + 1] : d \in 0..MaxDigit}
AllDigits == {Digit[k] : k \in 1..10}
SubmittedEGNs ==
    {p \o <<a, b, c, x>> : p \in {<<"7", "5", "2", "3", "1", "6">>,
                                  <<"9", "9", "1", "2", "3", "1">>},
                           a \in VariedDigits, b \in VariedDigits, c \in VariedDigits,
                           x \in AllDigits}
    \cup {<<"1", "2", "3", "4", "5", "6", "7", "8", "9">>,
          <<"1", "2", "3", "4", "5", "6", "7", "8", "9", "A">>}

\* texts a client may submit as account number: Bulgarian ones with every
\* pair of check digits, one written in lower case with spaces, and the
\* German, British and French examples of tests/setup.js
SubmittedIBANs ==
    {<<"B", "G", x, y>> \o bank \o <<"9", "6", "6", "1", "1", "0", "2", "0", "3", "4", "5", "6">>
        \o <<a, b>> :
        x \in AllDigits, y \in AllDigits,
        bank \in {<<"B", "N", "B", "G">>, <<"U", "N", "C", "R">>},
        a \in VariedDigits, b \in VariedDigits}
    \cup {<<"b", "g", x, y, " ", "b", "n", "b", "g", " ", "9", "6", "6", "1", " ",
            "1", "0", "2", "0", " ", "3", "4", "5", "6", " ", "0", "0">> :
            x \in AllDigits, y \in AllDigits}
    \cup {<<"D", "E", "8", "9", "3", "7", "0", "4", "0", "0", "4", "4", "0", "5",
            "3", "2", "0", "1", "3", "0", "0", "0">>,
          <<"G", "B", "2", "9", "N", "W", "B", "K", "6", "0", "1", "6", "1", "3",
            "3", "1", "9", "2", "6", "8", "1", "9">>,
          <<"F", "R", "1", "4", "2", "0", "0", "4", "1", "0", "1", "0", "0", "5",
            "0", "5", "0", "0", "0", "1", "3", "M", "0", "2", "6", "0", "6">>}

NoValidation == [kind |-> "none", text |-> <<>>, verdict |-> "none", changed |-> FALSE]

\* body('egn').custom(validateEGN), body('account_number').custom(validateIBAN)
SubmitEGN(egn) ==
    /\ validation = NoValidation
    /\ validation' = [NoValidation EXCEPT !.kind = "EGN", !.text = egn]
    /\ UNCHANGED <<ledgerVars, authVars, procVars, auditVars, pollVars, tokenVars, decimalVars>>

SubmitIBAN(iban) ==
    /\ validation = NoValidation
    /\ validation' = [NoValidation EXCEPT !.kind = "IBAN", !.text = iban]
    /\ UNCHANGED <<ledgerVars, authVars, procVars, auditVars, pollVars, tokenVars, decimalVars>>

RunValidator ==
    /\ validation.kind # "none" /\ validation.verdict = "none"
    /\ LET valid == IF validation.kind = "EGN" THEN validateEGN(validation.text)
                    ELSE validateIBAN(validation.text)
       IN validation' = [validation EXCEPT !.verdict =
                            IF valid THEN "accepted" ELSE "rejected"]
    /\ UNCHANGED <<ledgerVars, authVars, procVars, auditVars, pollVars, tokenVars, decimalVars>>

\* position of the check digits in a submitted text
CheckDigitPositions(kind, text) ==
    IF kind = "EGN" THEN {10}
    ELSE {i \in 1..Len(text) :
            Cardinality({j \in 1..i : text[j] # " "}) \in {3, 4} /\ text[i] # " "}

\* the client submits an accepted text again with one check digit changed
ResubmitChanged(pos, d) ==
    /\ validation.verdict = "accepted" /\ ~validation.changed
    /\ pos \in CheckDigitPositions(validation.kind, validation.text)
    /\ validation.text[pos] # d
    /\ validation' = [validation EXCEPT !.text = [@ EXCEPT ![pos] = d],
                                        !.verdict = "none", !.changed = TRUE]
    /\ UNCHANGED <<ledgerVars, authVars, procVars, auditVars, pollVars, tokenVars, decimalVars>>

ValidationInit == validation = NoValidation

ValidationNext ==
    \/ \E egn \in SubmittedEGNs : SubmitEGN(egn)
    \/ \E iban \in SubmittedIBANs : SubmitIBAN(iban)
    \/ RunValidator
    \/ \E pos \in 1..27, d \in AllDigits : ResubmitChanged(pos, d)

\* ================= routes/deposits.js GET /status/:transactionId
NumPollers == 2        \* status requests handled at the same time

Pollers == 1..NumPollers
TerminalStatuses == {"COMPLETED", "FAILED", "CANCELLED"}

\* a registered user who owns none of the transactions
OtherUser == "u2"
Callers == Users \cup {OtherUser}

\* source: whether checkTransactionStatus answered from the cache or from a request
IdlePoll == [pc |-> "idle", caller |-> "none", tx |-> NoReq, row |-> NoRow,
             easyPayStatus |-> "none", source |-> "none", resp |-> "none",
             polled |-> FALSE, wrote |-> FALSE]

\* WHERE id = $1 AND user_id = $2
\* variant: the row is selected by id alone
OwnedBy_Anyone(row, u) == TRUE

OwnedBy(row, u) == row.user = u

\* the two tests of checkTransactionStatus on a status: one before a cached
\* answer is used, one before an answer is cached
\* variant: every answer is cached
Cacheable_Any(status) == TRUE

Cacheable(status) == status # "PENDING"

CacheHit(cached) == cached # "none" /\ cached # "PENDING"

\* if (tx.status === 'PENDING' && tx.easypay_transaction_id)
\* variant: every transaction found is checked with the processor
NeedsPoll_Always(row) == TRUE

NeedsPoll(row) == row.status = "PENDING" /\ row.easypayId # "null"

\* SELECT * FROM transactions WHERE id AND user_id; 404 without a row; the
\* row's status is answered at once unless the row has to be checked
StatusSelect(p, t, u) ==
    /\ poll[p].pc \in {"idle", "done"}
    /\ LET row == transactions[t]
           found == row # NoRow /\ OwnedBy(row, u)
           start == [IdlePoll EXCEPT !.caller = u, !.tx = t]
       IN poll' = [poll EXCEPT ![p] =
             IF ~found
             THEN [start EXCEPT !.pc = "done", !.resp = "NotFound404"]
             ELSE IF NeedsPoll(row)
                  THEN [start EXCEPT !.pc = "check", !.row = row]
                  ELSE [start EXCEPT !.pc = "done", !.row = row,
                                     !.resp = row.status]]
    /\ UNCHANGED <<easypay, statusCache, ledgerVars, authVars, procVars, auditVars, validVars, tokenVars, decimalVars>>

\* checkTransactionStatus: a cached status other than PENDING is returned
\* without a request; otherwise GET /transactions/:id, whose answer is
\* cached unless it is PENDING; an error of the request is caught by the
\* route, which answers the status it read
CheckTransactionStatus(p, answered) ==
    /\ poll[p].pc = "check"
    /\ LET t == poll[p].tx
           cached == statusCache[t]
       IN IF CacheHit(cached)
          THEN /\ poll' = [poll EXCEPT ![p].pc = "update", ![p].polled = TRUE,
                                       ![p].source = "cache",
                                       ![p].easyPayStatus = cached]
               /\ statusCache' = statusCache
          ELSE IF answered
          THEN /\ poll' = [poll EXCEPT ![p].pc = "update", ![p].polled = TRUE,
                                       ![p].source = "request",
                                       ![p].easyPayStatus = easypay[t]]
               /\ statusCache' = IF Cacheable(easypay[t])
                                 THEN [statusCache EXCEPT ![t] = easypay[t]]
                                 ELSE statusCache
          ELSE /\ poll' = [poll EXCEPT ![p].pc = "done", ![p].polled = TRUE,
                                       ![p].source = "request",
                                       ![p].resp = poll[p].row.status]
               /\ statusCache' = statusCache
    /\ UNCHANGED <<easypay, ledgerVars, authVars, procVars, auditVars, validVars, tokenVars, decimalVars>>

\* if (easyPayStatus.status !== tx.status) UPDATE transactions SET status,
\* completed_at on the pool; a status outside valid_status makes the UPDATE
\* fail, the error is caught and the status read before is answered
StatusUpdate(p) ==
    /\ poll[p].pc = "update"
    /\ LET t == poll[p].tx
           status == poll[p].easyPayStatus
           changed == status # poll[p].row.status
       IN IF changed /\ ValidStatus(status)
          THEN /\ transactions' = [transactions EXCEPT ![t].status = status,
                                                       ![t].completedAt = TRUE]
               /\ poll' = [poll EXCEPT ![p].pc = "done", ![p].wrote = TRUE,
                                       ![p].resp = status]
          ELSE /\ transactions' = transactions
               /\ poll' = [poll EXCEPT ![p].pc = "done",
                                       ![p].resp = poll[p].row.status]
    /\ UNCHANGED <<balance, rowLock, req, balBefore, otherDelta, easypay, statusCache,
                   authVars, procVars, auditVars, validVars, tokenVars, decimalVars>>

\* the processor settles a payment it holds as pending or in processing;
\* a settled payment keeps its status
ProcessorSettles(t, status) ==
    /\ easypay[t] \in {"PENDING", "PROCESSING"}
    /\ status # easypay[t]
    /\ easypay' = [easypay EXCEPT ![t] = status]
    /\ UNCHANGED <<poll, statusCache, ledgerVars, authVars, procVars, auditVars, validVars, tokenVars, decimalVars>>

\* setCache(cacheKey, status, 300): the entry expires
CacheExpires(t) ==
    /\ statusCache[t] # "none"
    /\ statusCache' = [statusCache EXCEPT ![t] = "none"]
    /\ UNCHANGED <<poll, easypay, ledgerVars, authVars, procVars, auditVars, validVars, tokenVars, decimalVars>>

PollInit ==
    /\ poll = [p \in Pollers |-> IdlePoll]
    /\ easypay = [r \in Requests |-> "none"]
    /\ statusCache = [r \in Requests |-> "none"]

\* ============================================ services/easypayService.js
\* the OAuth token of the processor client; times are in milliseconds and the
\* clock advances in steps of 30 seconds
MaxTicks == 4          \* steps the client's clock advances
MaxTokens == 3         \* tokens the processor grants in one behaviour

TICK_MS == 30000
\* response.data.expires_in, in seconds
ExpiresIn == {30, 90, 120}
\* the methods that call getAccessToken before their request
TokenCallers == {"sendTransfer", "confirmTransfer"}
\* this.accessToken = null, this.tokenExpiry = null
NoAccessToken == 0
NewService == [accessToken |-> NoAccessToken, tokenExpiry |-> 0]

\* at: Date.now() when getAccessToken returned; cached: whether it returned
\* the token it held; sent: whether the method's own request was made
IdleTokenCall == [pc |-> "idle", token |-> NoAccessToken, cached |-> FALSE,
                  at |-> 0, sent |-> FALSE]

\* variant: the expiry is stored without the 60 seconds
TokenExpiry_NoMargin(nowMs, expires_in) == nowMs + expires_in * 1000

\* Date.now() + ((response.data.expires_in - 60) * 1000)
TokenExpiry(nowMs, expires_in) == nowMs + (expires_in - 60) * 1000

\* this.accessToken && this.tokenExpiry > Date.now()
CachedTokenValid == svc.accessToken # NoAccessToken /\ svc.tokenExpiry > clock

\* getAccessToken up to its first await: the held token is returned, or the
\* POST oauth/token is sent
getAccessToken(c) ==
    /\ tokenCall[c].pc \in {"idle", "done"}
    /\ tokenCall' = [tokenCall EXCEPT ![c] =
          IF CachedTokenValid
          THEN [IdleTokenCall EXCEPT !.pc = "request", !.token = svc.accessToken,
                                     !.cached = TRUE, !.at = clock]
          ELSE [IdleTokenCall EXCEPT !.pc = "oauth"]]
    /\ UNCHANGED <<svc, clock, tokenEnd, ledgerVars, authVars, procVars, auditVars,
                   validVars, pollVars, decimalVars>>

\* the token response arrives: accessToken and tokenExpiry are assigned in
\* one turn of the event loop and the new token is returned
OAuthResponse(c, expires_in) ==
    /\ tokenCall[c].pc = "oauth"
    /\ Len(tokenEnd) < MaxTokens
    /\ LET token == Len(tokenEnd) + 1 IN
       /\ tokenEnd' = Append(tokenEnd, clock + expires_in * 1000)
       /\ svc' = [accessToken |-> token, tokenExpiry |-> TokenExpiry(clock, expires_in)]
       /\ tokenCall' = [tokenCall EXCEPT ![c] =
             [IdleTokenCall EXCEPT !.pc = "request", !.token = token, !.at = clock]]
    /\ UNCHANGED <<clock, ledgerVars, authVars, procVars, auditVars,
                   validVars, pollVars, decimalVars>>

\* catch: throw new Error('Failed to authenticate with EasyPay'); the
\* calling method rethrows without making its request
OAuthError(c) ==
    /\ tokenCall[c].pc = "oauth"
    /\ tokenCall' = [tokenCall EXCEPT ![c] = [IdleTokenCall EXCEPT !.pc = "done"]]
    /\ UNCHANGED <<svc, clock, tokenEnd, ledgerVars, authVars, procVars, auditVars,
                   validVars, pollVars, decimalVars>>

\* axios.post(..., { headers: { Authorization: `Bearer ${token}` } })
OutboundRequest(c) ==
    /\ tokenCall[c].pc = "request"
    /\ tokenCall' = [tokenCall EXCEPT ![c].pc = "done", ![c].sent = TRUE]
    /\ UNCHANGED <<svc, clock, tokenEnd, ledgerVars, authVars, procVars, auditVars,
                   validVars, pollVars, decimalVars>>

ClockTick ==
    /\ clock < MaxTicks * TICK_MS
    /\ clock' = clock + TICK_MS
    /\ UNCHANGED <<svc, tokenCall, tokenEnd, ledgerVars, authVars, procVars, auditVars,
                   validVars, pollVars, decimalVars>>

TokenInit ==
    /\ svc = NewService
    /\ clock = 0
    /\ tokenCall = [c \in TokenCallers |-> IdleTokenCall]
    /\ tokenEnd = <<>>

\* ================================== amounts in the DECIMAL(15, 2) columns
\* amounts and balances in thousandths of the currency unit, so that an
\* amount with three fraction digits can be written
MaxOps == 3            \* money operations in one behaviour

OpeningBalance == 2000
\* amounts a client may put in the body: 0.005 .. 0.025
SubmittedThousandths == {5, 10, 14, 15, 20, 25}

\* isFloat({ min: 0.01, max: 10000 })
IsFloatInRange(a) == a >= 10 /\ a <= 10000000

\* a value assigned to a DECIMAL(15, 2) column is rounded to two fraction
\* digits, ties away from zero
Decimal2(x) ==
    IF x >= 0 THEN ((x + 5) \div 10) * 10 ELSE 0 - (((0 - x) + 5) \div 10) * 10

\* POST /deposits, /transfers/send, /bills/pay with a processor that completes
\* the payment: INSERT INTO transactions (..., amount, ...) VALUES (..., $4, ...)
\* and UPDATE users SET balance = balance +/- $1, both with the amount of
\* the body
MoneyOperation(kind, a) ==
    /\ Len(account.rows) < MaxOps
    /\ IsFloatInRange(a)
    /\ kind # "DEPOSIT" => ~(account.balance < a)
    /\ account' =
          [balance |-> IF kind = "DEPOSIT" THEN Decimal2(account.balance + a)
                       ELSE Decimal2(account.balance - a),
           rows |-> Append(account.rows, [type |-> kind, amount |-> Decimal2(a)])]
    /\ UNCHANGED <<ledgerVars, authVars, procVars, auditVars, validVars, pollVars,
                   tokenVars>>

DecimalInit == account = [balance |-> OpeningBalance, rows |-> <<>>]

\* ------------------------------------------------------------ specification
LedgerInit ==
    /\ balance = [u \in Users |-> InitBalance]
    /\ transactions = [r \in Requests |-> NoRow]
    /\ rowLock = [u \in Users |-> NoReq]
    /\ req = [r \in Requests |-> IdleReq]
    /\ balBefore = [r \in Requests |-> 0]
    /\ otherDelta = [r \in Requests |-> 0]

AuthInit ==
    /\ isActive = [u \in Users |-> TRUE]
    /\ failedAttempts = [u \in Users |-> 0]
    /\ sessions = {}
    /\ now = 0
    /\ login = [w \in Workers |-> IdleLogin]
    /\ issued = {}
    /\ lastVerify = [token |-> NoToken, result |-> "none"]

AuditInit ==
    /\ auditDb = TRUE
    /\ txAudit = [r \in Requests |-> <<>>]
    /\ authAudit = [w \in Workers |-> <<>>]
    /\ httpAudit = NoEntry

Init ==
    /\ LedgerInit /\ AuthInit /\ ProcInit /\ AuditInit /\ ValidationInit /\ PollInit
    /\ TokenInit /\ DecimalInit

Next ==
    \/ \E r \in Requests, k \in Kinds, u \in Users, a \in Amounts : Arrive(r, k, u, a)
    \/ \E r \in Requests : DepositRecord(r)
    \/ \E r \in Requests, p \in BOOLEAN : CheckBalance(r, p)
    \/ \E r \in Requests : Debit(r)
    \/ \E r \in Requests, o \in ProcStatuses \cup ProcErrors : ProcessorCall(r, o, "EP")
    \/ \E r \in Requests : UpdateWithEasyPay(r)
    \/ \E r \in Requests : CatchEasyPayError(r)
    \/ \E r \in Requests : Commit(r)
    \/ \E r \in Requests : Rollback(r)
    \/ \E r \in Requests : ReadBack(r)

Spec == Init /\ [][Next]_vars

AuthNext ==
    \/ \E w \in Workers, e \in Egns, p \in Pins, f \in BOOLEAN : LoginArrive(w, e, p, f)
    \/ \E w \in Workers : LookupUser(w)
    \/ \E w \in Workers : IncrementFailed(w)
    \/ \E w \in Workers, x \in {"verified", "rejected", "error"} : VerifyFace(w, x)
    \/ \E w \in Workers : ResetFailed(w)
    \/ \E w \in Workers : IssueToken(w, TRUE)
    \/ \E u \in Users : Deactivate(u)
    \/ \E u \in Users : Activate(u)

SpecAuth == Init /\ [][AuthNext]_vars

\* one kiosk logging in, with any credentials, while the administrator
\* deactivates and activates accounts and the sessions INSERT may fail
LoginNext ==
    \/ \E e \in Egns, p \in Pins, f \in BOOLEAN : LoginArrive(1, e, p, f)
    \/ LookupUser(1)
    \/ IncrementFailed(1)
    \/ \E x \in {"verified", "rejected", "error"} : VerifyFace(1, x)
    \/ ResetFailed(1)
    \/ \E i \in BOOLEAN : IssueToken(1, i)
    \/ LoginResponseAudit(1)
    \/ \E u \in Users : Deactivate(u)
    \/ \E u \in Users : Activate(u)

SpecLogin == Init /\ [][LoginNext]_vars

\* the two methods of the processor client, their token and the clock
TokenNext ==
    \/ \E c \in TokenCallers : getAccessToken(c)
    \/ \E c \in TokenCallers, e \in ExpiresIn : OAuthResponse(c, e)
    \/ \E c \in TokenCallers : OAuthError(c)
    \/ \E c \in TokenCallers : OutboundRequest(c)
    \/ ClockTick

SpecToken == Init /\ [][TokenNext]_vars

\* money operations of one user, one after the other
DecimalNext ==
    \E k \in Kinds, a \in SubmittedThousandths : MoneyOperation(k, a)

SpecDecimal == Init /\ [][DecimalNext]_vars

\* logins of the registered user that run at the same time and all fail
\* their check, with a wrong PIN or with the right PIN and an image the
\* verifier rejects: no step of these runs resets the counter
FailedLoginNext ==
    \/ \E w \in Workers, u \in Users, p \in Pins \ {"1234"}, f \in BOOLEAN :
          LoginArrive(w, u, p, f)
    \/ \E w \in Workers, u \in Users : LoginArrive(w, u, "1234", TRUE)
    \/ \E w \in Workers : LookupUser(w)
    \/ \E w \in Workers : VerifyFace(w, "rejected")
    \/ \E w \in Workers : IncrementFailed(w)

SpecFailedLogin == Init /\ [][FailedLoginNext]_vars

\* one money request and one login at a time while the audit store goes
\* down and comes back
AuditNext ==
    \/ AuditDbFails
    \/ AuditDbRecovers
    \/ \E k \in Kinds, u \in Users, a \in Amounts : Arrive(1, k, u, a)
    \/ DepositRecord(1)
    \/ \E p \in BOOLEAN : CheckBalance(1, p)
    \/ Debit(1)
    \/ \E o \in ProcStatuses \cup ProcErrors : ProcessorCall(1, o, "EP")
    \/ UpdateWithEasyPay(1)
    \/ CatchEasyPayError(1)
    \/ Commit(1)
    \/ Rollback(1)
    \/ ReadBack(1)
    \/ \E e \in Egns, p \in Pins, f \in BOOLEAN : LoginArrive(1, e, p, f)
    \/ LookupUser(1)
    \/ IncrementFailed(1)
    \/ \E x \in {"verified", "rejected", "error"} : VerifyFace(1, x)
    \/ ResetFailed(1)
    \/ IssueToken(1, TRUE)

SpecAudit == Init /\ [][AuditNext]_vars

\* responses of any route pass through auditMiddleware
AuditMiddlewareNext ==
    \E body \in SUBSET BodyFields, data \in SUBSET ResponseFields :
        auditMiddleware(body, data)

SpecAuditMiddleware == Init /\ [][AuditMiddlewareNext]_vars

SpecValidation == Init /\ [][ValidationNext]_vars

\* one money request, status requests for its transaction, and the
\* processor settling the payment
StatusNext ==
    \/ \E k \in Kinds, u \in Users, a \in Amounts : Arrive(1, k, u, a)
    \/ DepositRecord(1)
    \/ \E p \in BOOLEAN : CheckBalance(1, p)
    \/ Debit(1)
    \/ \E o \in ProcStatuses \cup ProcErrors, id \in {"EP", "null"} : ProcessorCall(1, o, id)
    \/ UpdateWithEasyPay(1)
    \/ CatchEasyPayError(1)
    \/ Commit(1)
    \/ Rollback(1)
    \/ ReadBack(1)
    \/ \E p \in Pollers, u \in Callers : StatusSelect(p, 1, u)
    \/ \E p \in Pollers, a \in BOOLEAN : CheckTransactionStatus(p, a)
    \/ \E p \in Pollers : StatusUpdate(p)
    \/ \E s \in TerminalStatuses \cup {"PROCESSING"} : ProcessorSettles(1, s)
    \/ CacheExpires(1)

SpecStatus == Init /\ [][StatusNext]_vars

\* two money requests and a login of the same user at the same time
ViewNext ==
    \/ \E r \in {1, 2}, k \in Kinds, u \in Users, a \in Amounts : Arrive(r, k, u, a)
    \/ \E r \in {1, 2} : DepositRecord(r)
    \/ \E r \in {1, 2}, p \in BOOLEAN : CheckBalance(r, p)
    \/ \E r \in {1, 2} : Debit(r)
    \/ \E r \in {1, 2}, o \in ProcStatuses \cup ProcErrors : ProcessorCall(r, o, "EP")
    \/ \E r \in {1, 2} : UpdateWithEasyPay(r)
    \/ \E r \in {1, 2} : CatchEasyPayError(r)
    \/ \E r \in {1, 2} : Commit(r)
    \/ \E r \in {1, 2} : Rollback(r)
    \/ \E r \in {1, 2} : ReadBack(r)
    \/ \E e \in Users : LoginArrive(1, e, "1234", FALSE)
    \/ LookupUser(1)
    \/ ResetFailed(1)
    \/ IssueToken(1, TRUE)

SpecView == Init /\ [][ViewNext]_vars

SpecProcessor == Init /\ [][ProcNext]_vars

\* every request ends (axios timeout: 30000) and every setTimeout fires
SpecProcessorLive ==
    /\ SpecProcessor
    /\ \A c \in Calls : /\ WF_vars(\E o \in AttemptOutcomes : RetryRequest(c, o))
                        /\ WF_vars(RetryWake(c))

\* ---------------- the money routes as mounted: verifyToken, validation, handler
MIN_AMOUNT == 1          \* isFloat min: 0.01
MAX_AMOUNT == 1000000    \* isFloat max: 10000
\* amounts a client may put in the body
SubmittedAmounts == {0 - 1, 0, MIN_AMOUNT, MAX_AMOUNT, MAX_AMOUNT + 1}

\* depositValidation / transferValidation / billPaymentValidation on amount
\* variant: no upper limit
AmountValid_NoCeiling(a) == a >= MIN_AMOUNT

AmountValid(a) == a >= MIN_AMOUNT /\ a <= MAX_AMOUNT

\* router.post(path, verifyToken, transactionLimiter, validation,
\* handleValidationErrors, handler): the middlewares up to the handler's entry
MoneyRequest(r, k, a, token) ==
    /\ req[r].pc = "idle"
    /\ IF r = 1 THEN TRUE ELSE req[r - 1].pc # "idle"
    /\ token \in issued \cup {ForgedToken, NoToken}
    /\ LET result == VerifyTokenResult(token)
           resp == IF result # "next" THEN result
                   ELSE IF ~AmountValid(a) THEN "Validation400"
                   ELSE "none"
       IN /\ req' = [req EXCEPT ![r] =
                       [IdleReq EXCEPT !.pc = IF resp = "none" THEN "start" ELSE "done",
                                       !.kind = k,
                                       !.user = IF token = NoToken THEN IdleReq.user
                                                ELSE token.userId,
                                       !.amount = a,
                                       !.resp = resp,
                                       !.token = token]]
          /\ sessions' = IF result = "next" THEN TouchSession(token) ELSE sessions
    /\ UNCHANGED <<balance, transactions, rowLock, balBefore, otherDelta,
                   isActive, failedAttempts, now, login, issued, lastVerify, extVars>>

\* one kiosk: one login at a time, one money request
GateNext ==
    \/ \E e \in Users : LoginArrive(1, e, "1234", FALSE)
    \/ LookupUser(1)
    \/ ResetFailed(1)
    \/ IssueToken(1, TRUE)
    \/ \E t \in Tokens : Logout(t)
    \/ Tick
    \/ \E k \in Kinds, a \in SubmittedAmounts, t \in Tokens \cup {NoToken} :
          MoneyRequest(1, k, a, t)
    \/ \E r \in Requests : DepositRecord(r)
    \/ \E r \in Requests, p \in BOOLEAN : CheckBalance(r, p)
    \/ \E r \in Requests : Debit(r)
    \/ \E r \in Requests, o \in ProcStatuses \cup ProcErrors : ProcessorCall(r, o, "EP")
    \/ \E r \in Requests : UpdateWithEasyPay(r)
    \/ \E r \in Requests : CatchEasyPayError(r)
    \/ \E r \in Requests : Commit(r)
    \/ \E r \in Requests : Rollback(r)
    \/ \E r \in Requests : ReadBack(r)

SpecGate == Init /\ [][GateNext]_vars

\* sessions over time: logins with valid credentials, token checks, logouts
SessionNext ==
    \/ \E w \in Workers, e \in Users : LoginArrive(w, e, "1234", FALSE)
    \/ \E w \in Workers : LookupUser(w)
    \/ \E w \in Workers : ResetFailed(w)
    \/ \E w \in Workers : IssueToken(w, TRUE)
    \/ \E t \in Tokens : verifyToken(t)
    \/ \E t \in Tokens : Logout(t)
    \/ \E u \in Users : Deactivate(u)
    \/ \E u \in Users : Activate(u)
    \/ Tick

SpecSession == Init /\ [][SessionNext]_vars

\* ================================================================ properties
DebitKinds == {"TRANSFER", "BILL_PAYMENT"}

RECURSIVE SumAmounts(_)
SumAmounts(S) ==
    IF S = {} THEN 0
    ELSE LET r == CHOOSE x \in S : TRUE
         IN transactions[r].amount + SumAmounts(S \ {r})

\* committed deposits of user u that are COMPLETED
CompletedDeposits(u) ==
    {r \in Requests : /\ transactions[r].user = u
                      /\ transactions[r].type = "DEPOSIT"
                      /\ transactions[r].status = "COMPLETED"}

\* transfers and bill payments of user u whose call reached COMMIT
SucceededDebits(u) ==
    {r \in Requests : transactions[r].user = u /\ transactions[r].type \in DebitKinds}

\* a transfer or bill payment whose processor call failed after the debit
FailedAfterDebit(r) == req[r].kind \in DebitKinds /\ req[r].proc \in ProcErrors

\* the balance user u has when the amounts of the requests in S are left out
BalanceWithout(u, S) ==
    InitBalance + SumAmounts(CompletedDeposits(u) \ S) - SumAmounts(SucceededDebits(u) \ S)

\* C1: when a transfer or bill payment fails after its debit, the amount has
\* been credited back inside the transaction before the error leaves it, and
\* once the error is returned the committed balance carries no debit of that
\* call: it is the balance that the other operations alone account for.
C1_FailedCallLeavesBalance ==
    \A r \in Requests : FailedAfterDebit(r) =>
        /\ req[r].pc = "rollback" =>
              /\ rowLock[req[r].user] = r
              /\ req[r].pdelta = 0
        /\ req[r].pc = "done" =>
              /\ req[r].resp = "Error500"
              /\ balance[req[r].user] = BalanceWithout(req[r].user, {r})

C1_Witness ==
    \E r \in Requests : /\ FailedAfterDebit(r) /\ req[r].pc = "done"
                        /\ req[r].proc = "TIMEOUT"
                        /\ balance[req[r].user] = req[r].userBalance

C3_NoOverdraft ==
    \A u \in Users :
        /\ balance[u] >= 0
        /\ rowLock[u] # NoReq => balance[u] + req[rowLock[u]].pdelta >= 0
        /\ SumAmounts(SucceededDebits(u)) <=
              InitBalance + SumAmounts(CompletedDeposits(u))

\* two requests passed the balance check on the same balance, which does not
\* cover both; one completed and the other was stopped at its debit
C3_Witness ==
    \E r1, r2 \in Requests :
        /\ r1 # r2 /\ req[r1].user = req[r2].user
        /\ req[r1].kind \in DebitKinds /\ req[r2].kind \in DebitKinds
        /\ req[r1].userBalance = req[r2].userBalance
        /\ req[r1].amount + req[r2].amount > req[r1].userBalance
        /\ req[r1].pc = "done" /\ req[r1].resp = "OK200"
        /\ req[r2].pc = "done" /\ req[r2].resp = "Error500" /\ req[r2].proc = "none"

\* C4 (as claimed): check and debit are one atomic step per user: no two
\* requests of a user are both past the check and before the debit on the
\* same balance, and a request stopped for lack of funds answers
\* InsufficientFunds.
C4_AtomicCheckAndDebit ==
    /\ \A r1, r2 \in Requests :
          (r1 # r2 /\ req[r1].user = req[r2].user
              /\ req[r1].pc = "debit" /\ req[r2].pc = "debit")
          => req[r1].userBalance # req[r2].userBalance
    /\ \A r \in Requests :
          (req[r].kind \in DebitKinds /\ req[r].pc = "done"
              /\ req[r].proc = "none" /\ req[r].resp # "ProviderNotFound404")
          => req[r].resp = "InsufficientBalance400"

\* C5 (as claimed): after a failed processor call the transaction record is
\* stored with status FAILED and an error detail.
C5_FailedRecordPersisted ==
    \A r \in Requests : (FailedAfterDebit(r) /\ req[r].pc = "done") =>
        /\ transactions[r].status = "FAILED"
        /\ transactions[r].error # "null"

\* C6: a transfer or bill payment that reads a balance below its amount is
\* answered with the insufficient-balance error, has written nothing (no
\* record, no pending debit, no lock) and leaves the balance as it was.
C6_InsufficientRejected ==
    \A r \in Requests :
        (req[r].kind \in DebitKinds /\ req[r].pc \notin {"idle", "start"}
            /\ req[r].userBalance < req[r].amount)
        => /\ req[r].pc = "done"
           /\ req[r].resp = "InsufficientBalance400"
           /\ transactions[r] = NoRow
           /\ req[r].pdelta = 0
           /\ rowLock[req[r].user] # r
           /\ balance[req[r].user] = BalanceWithout(req[r].user, {r})

C6_Witness ==
    \E r \in Requests : /\ req[r].kind = "TRANSFER" /\ req[r].pc = "done"
                        /\ req[r].userBalance < req[r].amount
                        /\ req[r].resp = "InsufficientBalance400"
                        /\ \A q \in Requests : transactions[q].status # "COMPLETED"

DepositCommits(r) ==
    /\ req[r].kind = "DEPOSIT" /\ req[r].pc = "commit" /\ req'[r].pc = "readback"

DepositReturns(r) ==
    /\ req[r].kind = "DEPOSIT" /\ req[r].pc = "readback" /\ req'[r].pc = "done"

DepositCommitsAtomically(r) ==
    DepositCommits(r) =>
        /\ transactions[r] = NoRow
        /\ transactions'[r].status = "COMPLETED"
        /\ transactions'[r].completedAt
        /\ transactions'[r].amount = req[r].amount
        /\ balance'[req[r].user] = balance[req[r].user] + req[r].amount

\* C7 (as claimed): a deposit commits its COMPLETED record and the balance
\* increase in one step and returns the balance before the deposit plus the
\* amount.
C7_DepositReturnsOldPlusAmount ==
    [][\A r \in Requests :
          /\ DepositCommitsAtomically(r)
          /\ DepositReturns(r) =>
                /\ req'[r].resp = "OK200"
                /\ req'[r].newBalance = balBefore[r] + req[r].amount]_vars

\* C7 (amended): a deposit commits its COMPLETED record, stamped with the
\* completion time, and the balance increase of exactly the amount in one
\* step, and returns the balance it reads after the commit: the balance
\* before the deposit plus the amount plus whatever other requests of the
\* user committed between the deposit's commit and that read.
C7_DepositAtomic ==
    [][\A r \in Requests :
          /\ DepositCommitsAtomically(r)
          /\ DepositReturns(r) =>
                /\ req'[r].resp = "OK200"
                /\ req'[r].newBalance = balBefore[r] + req[r].amount + otherDelta[r]]_vars

C7_Witness ==
    \E r \in Requests : /\ req[r].kind = "DEPOSIT" /\ req[r].pc = "done"
                        /\ req[r].resp = "OK200"
                        /\ transactions[r].status = "COMPLETED"
                        /\ req[r].newBalance = InitBalance + req[r].amount
\* ------------------------------------------------------------ login, sessions
PinMatches(w) ==
    login[w].found /\ BcryptCompare(login[w].pin, PinHash[login[w].egn])

\* C8 (as claimed): a login returns a token exactly when the PIN matches, no
\* face image was supplied or the verifier answered verified, and the account
\* is active and not locked.
C8_TokenIffAllFactors ==
    \A w \in Workers : login[w].pc = "done" =>
        (login[w].token # NoToken <=>
            /\ PinMatches(w)
            /\ ~login[w].face \/ login[w].faceResult = "verified"
            /\ login[w].active
            /\ ~login[w].locked)

\* C8 (amended): a login returns a token exactly when the PIN matches, and no
\* face image was supplied or the verifier answered verified or the call to
\* the verifier failed, and the account is active and not locked.
C8_TokenIffFactorsOrVerifierDown ==
    \A w \in Workers : login[w].pc = "done" =>
        /\ login[w].token # NoToken <=>
              /\ PinMatches(w)
              /\ \/ ~login[w].face
                 \/ login[w].faceResult = "verified"
                 \/ login[w].faceResult = "error"
              /\ login[w].active
              /\ ~login[w].locked
        /\ login[w].token # NoToken <=> login[w].resp = "OK200"
        /\ login[w].token # NoToken => login[w].token \in issued

C8_Witness ==
    \E w \in Workers : /\ login[w].pc = "done" /\ login[w].token # NoToken
                       /\ login[w].face /\ login[w].faceResult = "error"

\* C9: a login attempt that finds 5 or more failed attempts on an existing,
\* active account is answered AccountLocked whatever its PIN, and neither
\* returns a token nor creates a session.
C9_LockedAfterFive ==
    [][\A w \in Workers :
          (/\ login[w].pc = "start" /\ login'[w].pc # "start"
           /\ login[w].egn \in Users
           /\ isActive[login[w].egn]
           /\ failedAttempts[login[w].egn] >= 5)
          => /\ login'[w].pc = "done"
             /\ login'[w].resp = "AccountLocked403"
             /\ login'[w].token = NoToken
             /\ sessions' = sessions
             /\ issued' = issued]_vars

\* the sixth attempt, with the correct PIN, after five failed ones
C9_Witness ==
    \E w \in Workers : /\ login[w].pc = "done" /\ login[w].egn \in Users
                       /\ BcryptCompare(login[w].pin, PinHash[login[w].egn])
                       /\ login[w].resp = "AccountLocked403"
                       /\ failedAttempts[login[w].egn] = 5
                       /\ sessions = {} /\ issued = {}

\* C10 (as claimed): verifyToken accepts a token only while the session
\* created for that token, matched by token hash, exists and is unexpired.
C10_TokenNeedsItsSession ==
    [][(lastVerify' # lastVerify /\ lastVerify'.result = "next") =>
          \E s \in sessions : /\ s.tokenHash = TokenHash(lastVerify'.token)
                              /\ s.expiresAt > now]_vars

\* a token that is missing, not signed with the secret, or past its expiry
TokenMissingInvalidOrExpired(token, t) ==
    \/ token = NoToken
    \/ token.sig # "JWT_SECRET"
    \/ t >= token.exp

\* C11: a deposit, transfer or bill-payment request that presents a missing,
\* invalid or expired token is answered 401 at once; the step changes no
\* balance and no transaction record, and the request does nothing afterwards.
C11_BadTokenRejected ==
    [][\A r \in Requests :
          /\ (/\ req[r].pc = "idle" /\ req'[r].pc # "idle"
              /\ TokenMissingInvalidOrExpired(req'[r].token, now))
             => /\ req'[r].pc = "done"
                /\ req'[r].resp = "401"
                /\ balance' = balance
                /\ transactions' = transactions
          /\ req[r].resp = "401" => req'[r] = req[r]]_vars

\* a request with a token that was issued by a login and has since expired
C11_Witness ==
    \E r \in Requests : /\ req[r].pc = "done" /\ req[r].resp = "401"
                         /\ req[r].token \in issued
                         /\ now >= req[r].token.exp
                         /\ transactions[r] = NoRow
                         /\ balance[req[r].user] = InitBalance

\* C17: a deposit request of an authenticated user whose amount is not
\* positive or is above 10,000 (1,000,000 minor units) is answered with a
\* validation error 400 at once; the step changes no balance and no
\* transaction record, and the request does nothing afterwards.
C17_InvalidDepositRejected ==
    [][\A r \in Requests :
          /\ (/\ req[r].pc = "idle" /\ req'[r].pc # "idle"
              /\ req'[r].kind = "DEPOSIT"
              /\ VerifyTokenResult(req'[r].token) = "next"
              /\ (req'[r].amount <= 0 \/ req'[r].amount > 10000 * 100))
             => /\ req'[r].pc = "done"
                /\ req'[r].resp = "Validation400"
                /\ balance' = balance
                /\ transactions' = transactions
          /\ req[r].resp = "Validation400" => req'[r] = req[r]]_vars

\* a deposit above the ceiling, made with a valid token, was answered 400
C17_Witness ==
    \E r \in Requests : /\ req[r].pc = "done" /\ req[r].kind = "DEPOSIT"
                         /\ req[r].token \in issued
                         /\ req[r].amount > 10000 * 100
                         /\ req[r].resp = "Validation400"
                         /\ transactions[r] = NoRow
                         /\ balance[req[r].user] = InitBalance

\* C12 (as claimed): every transfer and every bill-payment request sent to
\* the processor, retries included, carries the local transaction id as its
\* reference, and no operation makes the processor create a second payment.
C12_RetriesCarryReference ==
    \A c \in Calls :
        /\ call[c].pc # "idle" => call[c].reference = TransactionId(c)
        /\ remotePayments[c] <= 1

\* C13 (as claimed): an attempt the processor refuses with a 4xx is the last
\* request of its call, and the call has raised that failure.
C13_NonTransientNotRetried ==
    \A c \in Calls : \A k \in 1..Len(call[c].outcomes) :
        call[c].outcomes[k] = "refused4xx" =>
            /\ k = Len(call[c].outcomes)
            /\ call[c].pc = "thrown"

\* what C14 says of the attempts and delays of one call
BoundedRetry(c) ==
    LET o == call[c].outcomes
        d == call[c].delays
    IN /\ Len(o) <= 3
       /\ \A k \in 1..Len(d) : d[k] = 1000 * 2 ^ (k - 1)
       /\ \A k \in 2..Len(d) : d[k] > d[k - 1]
       /\ call[c].pc \in {"waiting", "request"} =>
             /\ Len(d) = Len(o)
             /\ \A k \in 1..Len(o) : o[k] # "ok"
       /\ call[c].pc = "returned" =>
             /\ o[Len(o)] = "ok"
             /\ \A k \in 1..(Len(o) - 1) : o[k] # "ok"
             /\ call[c].result = "ok"
       /\ call[c].pc = "thrown" =>
             /\ Len(o) = 3
             /\ \A k \in 1..3 : o[k] # "ok"
             /\ call[c].result = o[3]

\* C14: a failed processor request is tried again after a delay that doubles
\* from 1000 ms, there are at most 3 attempts in all, and every call ends:
\* it returns the first successful answer or raises the failure of the
\* third attempt.
C14_BoundedRetryTerminates ==
    /\ [](\A c \in Calls : BoundedRetry(c))
    /\ \A c \in Calls :
          (call[c].pc = "request") ~> (call[c].pc \in {"returned", "thrown"})

\* three transient failures: two delays, then the last failure is raised
C14_Witness ==
    \E c \in Calls : /\ call[c].pc = "thrown"
                      /\ call[c].outcomes = <<"transient", "transient", "transient">>
                      /\ call[c].delays = <<1000, 2000>>
                      /\ call[c].result = "transient"

\* the answer a login gets when nothing but its inputs and the account decide
LoginOutcome(w) ==
    IF ~login[w].found THEN "InvalidCredentials401"
    ELSE IF ~login[w].active THEN "Deactivated403"
    ELSE IF login[w].locked THEN "AccountLocked403"
    ELSE IF ~PinMatches(w) THEN "InvalidCredentials401"
    ELSE IF login[w].face /\ login[w].faceResult = "rejected" THEN "FaceFailed401"
    ELSE "OK200"

\* the answer a money request gets when nothing but its inputs, the balance
\* it read and the processor's answer decide
MoneyOutcome(r) ==
    IF req[r].kind = "DEPOSIT" THEN "OK200"
    ELSE IF req[r].userBalance < req[r].amount THEN "InsufficientBalance400"
    ELSE IF req[r].proc = "none" THEN "ProviderNotFound404"
    ELSE IF req[r].proc \in {"PENDING", "COMPLETED", "FAILED"} THEN "OK200"
    ELSE "Error500"

\* C15: login, deposit, transfer and bill payment end in the answer and in the
\* balance, transaction and session state that their inputs and the
\* processor's answer decide, whether their audit writes succeeded or failed.
C15_AuditFailureHarmless ==
    /\ \A r \in Requests : req[r].pc = "done" =>
          /\ req[r].resp = MoneyOutcome(r)
          /\ IF req[r].resp = "OK200"
             THEN /\ transactions[r].amount = req[r].amount
                  /\ transactions[r].status =
                        IF req[r].kind = "DEPOSIT" THEN "COMPLETED" ELSE req[r].proc
             ELSE transactions[r] = NoRow
    /\ \A u \in Users : balance[u] = BalanceWithout(u, {})
    /\ \A w \in Workers : login[w].pc = "done" =>
          /\ login[w].resp = LoginOutcome(w)
          /\ login[w].resp = "OK200" =>
                /\ login[w].token \in issued
                /\ \E x \in sessions : x.tokenHash = TokenHash(login[w].token)
          /\ login[w].resp # "OK200" => login[w].token = NoToken

\* a deposit and a login that succeeded although their audit rows were lost
C15_Witness ==
    /\ \E r \in Requests : /\ req[r].pc = "done" /\ req[r].kind = "DEPOSIT"
                            /\ req[r].resp = "OK200" /\ txAudit[r] = <<>>
                            /\ transactions[r].status = "COMPLETED"
    /\ \E w \in Workers : /\ login[w].pc = "done" /\ login[w].resp = "OK200"
                           /\ authAudit[w] = <<>>

\* C16 (as claimed): no persisted audit entry holds a PIN, the submitted
\* face image or a session token.
C16_NoSecretsInAudit ==
    httpAudit # NoEntry =>
        \A k \in 1..Len(httpAudit) :
            (httpAudit[k].requestData \cup httpAudit[k].responseData)
                \cap {"pin", "face_image", "token"} = {}

\* ------------------------------------------------------------ validators
\* the check digit of an identity number, recomputed from its first nine digits
EgnCheckDigit(t) ==
    LET sum == 2 * ParseDigit(t[1]) + 4 * ParseDigit(t[2]) + 8 * ParseDigit(t[3])
               + 5 * ParseDigit(t[4]) + 10 * ParseDigit(t[5]) + 9 * ParseDigit(t[6])
               + 7 * ParseDigit(t[7]) + 3 * ParseDigit(t[8]) + 6 * ParseDigit(t[9])
    IN IF sum % 11 = 10 THEN 0 ELSE sum % 11

\* the number a digit string stands for, modulo 97
RECURSIVE NumberMod97(_, _)
NumberMod97(digits, acc) ==
    IF digits = <<>> THEN acc
    ELSE NumberMod97(Tail(digits), (acc * 10 + ParseDigit(Head(digits))) % 97)

\* the check digits of an account number agree with the rest of it: with the
\* first four characters moved to the end and letters written as numbers,
\* the number is 1 modulo 97
IbanCheckDigitsMatch(text) ==
    LET t == CleanIBAN(text)
    IN NumberMod97(NumericString(SubSeq(t, 5, Len(t)) \o SubSeq(t, 1, 4)), 0) = 1

\* the check digits of an account number, recomputed from the rest of it
\* (ISO 7064 MOD 97-10): 98 minus the number, with the check digits set to
\* 00, modulo 97
IbanCheckDigits(text) ==
    LET t == CleanIBAN(text)
    IN 98 - NumberMod97(NumericString(SubSeq(t, 5, Len(t)) \o SubSeq(t, 1, 2)
                                      \o <<"0", "0">>), 0)

\* C18 (as claimed): an identity number that validateEGN accepts ends in the
\* check digit recomputed from its first nine digits, an account number that
\* validateIBAN accepts carries the check digits recomputed from the rest of
\* it, and an accepted text submitted again with one check digit changed to
\* another digit is rejected.
C18_CheckDigitRoundTrip ==
    /\ (validation.kind = "EGN" /\ validation.verdict = "accepted") =>
          /\ Len(validation.text) = 10
          /\ ParseDigit(validation.text[10]) = EgnCheckDigit(validation.text)
    /\ (validation.kind = "IBAN" /\ validation.verdict = "accepted") =>
          LET t == CleanIBAN(validation.text)
          IN 10 * ParseDigit(t[3]) + ParseDigit(t[4]) = IbanCheckDigits(t)
    /\ (validation.changed /\ validation.verdict # "none") =>
          validation.verdict = "rejected"

\* an account number of Germany, Britain or France in its own format
ForeignFormat(text) ==
    /\ \A i \in 1..Len(text) : IsDigit(text[i]) \/ IsUpper(text[i])
    /\ \/ Len(text) = 22 /\ SubSeq(text, 1, 2) \in {<<"D", "E">>, <<"G", "B">>}
       \/ Len(text) = 27 /\ SubSeq(text, 1, 2) = <<"F", "R">>
    /\ IsDigit(text[3]) /\ IsDigit(text[4])

\* C19 (as claimed): validateIBAN accepts a German, British or French
\* account number in its own format whose mod-97 check digits are correct.
C19_ForeignIbansAccepted ==
    (/\ validation.kind = "IBAN" /\ validation.verdict # "none"
     /\ ForeignFormat(validation.text)
     /\ IbanCheckDigitsMatch(validation.text))
    => validation.verdict = "accepted"

\* ------------------------------------------------- the lock and the remote call
\* C20 (as claimed): while the processor call of a transfer or bill payment
\* is in flight its request does not hold the lock of the user's balance row:
\* the debit is already committed and nothing of it is pending.
C20_NoLockDuringCall ==
    \A r \in Requests : req[r].pc = "call" =>
        /\ rowLock[req[r].user] # r
        /\ req[r].pdelta = 0
        /\ transactions[r].status = "PENDING"

\* ------------------------------------------------- the transaction record
\* a transfer or bill payment whose processor call has been started
CallStarted(r) ==
    /\ req[r].kind \in DebitKinds
    /\ \/ req[r].pc \in {"call", "called", "commit", "rollback", "readback"}
       \/ req[r].pc = "done" /\ req[r].proc # "none"

\* C21 (as claimed): from the moment the processor call of a transfer or bill
\* payment is started, the transactions table holds the record of that
\* request, whatever the outcome of the call.
C21_RecordDurableBeforeCall ==
    \A r \in Requests : CallStarted(r) =>
        /\ transactions[r] # NoRow
        /\ transactions[r].amount = req[r].amount

\* C23 (as claimed): once the processor call of a transfer or bill payment
\* has returned an answer and the route has stored it, the record has status
\* COMPLETED and holds the processor's id.
C23_SuccessCompletes ==
    \A r \in Requests :
        (/\ req[r].kind \in DebitKinds
         /\ req[r].proc \in ProcStatuses
         /\ req[r].pc \in {"readback", "done"})
        => /\ transactions[r].status = "COMPLETED"
           /\ transactions[r].easypayId # "null"

\* C24 (as claimed): after the processor call of a transfer timed out the
\* record is PENDING, not FAILED, in the route's transaction and in the table
\* once the route has answered.
C24_TimeoutLeavesPending ==
    \A r \in Requests :
        (req[r].kind = "TRANSFER" /\ req[r].proc = "TIMEOUT") =>
            /\ req[r].pc = "rollback" => req[r].ptx.status = "PENDING"
            /\ req[r].pc = "done" => transactions[r].status = "PENDING"

\* ------------------------------------------------------------ status polls
\* a change of status from one stored status to another
StatusChange(old, new) == old # "NONE" /\ new # old

\* C22: the status of a transaction record, in the table and inside the open
\* transaction of its route, changes only from PENDING to COMPLETED, FAILED
\* or CANCELLED; a record that is COMPLETED, FAILED or CANCELLED keeps its
\* status, and no record is ever deleted from the table.
C22_StatusMonotonic ==
    [][\A r \in Requests :
          /\ StatusChange(transactions[r].status, transactions'[r].status) =>
                /\ transactions[r].status = "PENDING"
                /\ transactions'[r].status \in {"COMPLETED", "FAILED", "CANCELLED"}
          /\ (req[r].ptx # NoRow /\ req'[r].ptx # NoRow
                  /\ StatusChange(req[r].ptx.status, req'[r].ptx.status)) =>
                /\ req[r].ptx.status = "PENDING"
                /\ req'[r].ptx.status \in {"COMPLETED", "FAILED", "CANCELLED"}]_vars

\* two status requests read the record PENDING; the first wrote the settled
\* status, the second then found nothing to change
C22_Witness ==
    \E p, q \in Pollers :
        /\ p # q /\ poll[p].tx = poll[q].tx /\ poll[p].tx # NoReq
        /\ poll[p].pc = "done" /\ poll[p].wrote
        /\ poll[q].pc = "done" /\ poll[q].polled
        /\ poll[q].row.status = "PENDING"
        /\ transactions[poll[p].tx].status \in TerminalStatuses

\* C25 (as claimed): the step of a status request that turns a PENDING
\* transfer or bill payment into FAILED credits the amount back to the
\* owner's balance.
C25_PollFailureCompensates ==
    [][\A r \in Requests :
          (/\ poll' # poll
           /\ transactions[r].type \in DebitKinds
           /\ transactions[r].status = "PENDING"
           /\ transactions'[r].status = "FAILED")
          => balance'[transactions[r].user] =
                balance[transactions[r].user] + transactions[r].amount]_vars

\* C26: a status request never changes a balance; it checks with the processor
\* only a record it read as PENDING with a processor id, and for any other
\* record it makes no processor call and writes nothing; what it writes is
\* the status and completion time of the record it read, nothing else.
C26_StatusReadOnly ==
    /\ [][poll' # poll =>
             /\ balance' = balance
             /\ \A r \in Requests :
                   transactions'[r] # transactions[r] =>
                      /\ \E p \in Pollers : /\ poll[p].pc = "update" /\ poll[p].tx = r
                                             /\ poll'[p].wrote
                      /\ transactions'[r] =
                            [transactions[r] EXCEPT !.status = transactions'[r].status,
                                                    !.completedAt = TRUE]]_vars
    /\ [](\A p \in Pollers :
             /\ (poll[p].polled \/ poll[p].wrote \/ poll[p].pc \in {"check", "update"}) =>
                   /\ poll[p].row.status = "PENDING"
                   /\ poll[p].row.easypayId # "null"
             /\ (poll[p].pc = "done" /\ poll[p].resp # "NotFound404"
                    /\ ~(poll[p].row.status = "PENDING" /\ poll[p].row.easypayId # "null")) =>
                   /\ ~poll[p].polled /\ ~poll[p].wrote
                   /\ poll[p].resp = poll[p].row.status)

\* a status request for a PENDING record wrote the status FAILED that the
\* processor reported, and the balance is the one the transfer left
C26_Witness ==
    \E p \in Pollers :
        /\ poll[p].pc = "done" /\ poll[p].wrote
        /\ poll[p].resp = "FAILED"
        /\ transactions[poll[p].tx].status = "FAILED"
        /\ balance[transactions[poll[p].tx].user] = InitBalance - transactions[poll[p].tx].amount

\* ------------------------------------------------------------ balances shown
\* the balance of user u after every compensation: the initial balance, the
\* completed deposits, and the debits of those transfers and bill payments
\* whose processor call has returned and whose route has committed
PostCompensationBalance(u) ==
    InitBalance + SumAmounts(CompletedDeposits(u)) - SumAmounts(SucceededDebits(u))

\* a request whose debit is made and neither committed nor compensated
DebitInFlight(r) == req[r].pdelta < 0

\* C27: every balance a request reads or reports (the balance check of a
\* transfer or bill payment, the new balance in an answer, the summary of a
\* login) is, at the moment it is read, the balance after every
\* compensation: it holds no debit of a request whose processor call is
\* in flight or has failed.
C27_NoTransientBalance ==
    [][/\ \A r \in Requests :
             /\ (req[r].pc = "start" /\ req'[r].pc # "start"
                    /\ req[r].kind \in DebitKinds) =>
                   req'[r].userBalance = PostCompensationBalance(req[r].user)
             /\ (req[r].pc = "readback" /\ req'[r].pc = "done") =>
                   req'[r].newBalance = PostCompensationBalance(req[r].user)
       /\ \A w \in Workers :
             (login[w].pc = "start" /\ login'[w].pc # "start" /\ login'[w].found) =>
                login'[w].balance = PostCompensationBalance(login[w].egn)]_vars

\* while the debit of one request is in flight, another request has read
\* the full balance and a login has reported it
C27_Witness ==
    \E r, q \in Requests :
        /\ r # q /\ DebitInFlight(r) /\ req[r].pc = "called"
        /\ req[q].pc = "debit" /\ req[q].userBalance = InitBalance
        /\ login[1].pc = "done" /\ login[1].resp = "OK200"
        /\ login[1].balance = InitBalance
        /\ balance[req[r].user] + req[r].pdelta < InitBalance

\* ------------------------------------------------------------ login steps
\* C28 (as claimed): the step of a login that returns a token leaves a stored
\* session for that token, holding its hash.
C28_TokenAfterSessionStored ==
    [][\A w \in Workers :
          (login[w].pc = "session" /\ login'[w].token # NoToken) =>
             \E x \in sessions' : /\ x.tokenHash = TokenHash(login'[w].token)
                                   /\ x.user = login'[w].egn]_vars

\* every factor the request supplied has been checked
FactorsChecked(w) ==
    /\ login[w].found /\ login[w].active /\ ~login[w].locked
    /\ PinMatches(w)
    /\ login[w].face => login[w].faceResult # "none"

\* C29: the face verifier is called only for a login whose user exists, is
\* active and not locked and whose PIN has matched; the failed-attempt reset
\* and the session issuance are done only by a login whose user exists, is
\* active and not locked, whose PIN has matched, and whose face image, if
\* one was sent, has been through the verifier.
C29_FactorsInOrder ==
    /\ [](\A w \in Workers :
             /\ (login[w].pc = "face" \/ login[w].faceResult # "none") =>
                   /\ login[w].found /\ login[w].active /\ ~login[w].locked
                   /\ PinMatches(w)
                   /\ login[w].face
             /\ (login[w].pc \in {"reset", "session"} \/ login[w].token # NoToken) =>
                   FactorsChecked(w))
    /\ [][/\ sessions' # sessions =>
                \E w \in Workers : login[w].pc = "session" /\ FactorsChecked(w)
          /\ \A u \in Users :
                (failedAttempts[u] > 0 /\ failedAttempts'[u] = 0 /\ login' # login) =>
                   \E w \in Workers : /\ login[w].pc = "reset" /\ login[w].egn = u
                                       /\ FactorsChecked(w)]_vars

\* a login with matching PIN and verified face got its token; the counter is
\* reset and the success is in the audit log
C29_Witness ==
    \E w \in Workers :
        /\ login[w].pc = "done" /\ login[w].resp = "OK200"
        /\ login[w].face /\ login[w].faceResult = "verified"
        /\ login[w].token \in issued
        /\ failedAttempts[login[w].egn] = 0
        /\ Len(authAudit[w]) = 1

\* C30 (as claimed): a login for a deactivated user gets the answer a login
\* for an unknown identity number gets, the generic InvalidCredentials.
C30_DeactivatedLooksUnknown ==
    \A w \in Workers :
        (login[w].pc = "done" /\ login[w].found /\ ~login[w].active) =>
            login[w].resp = "InvalidCredentials401"

\* ------------------------------------------------------------ login audit
\* the audit_logs rows a finished login request has left
LoginAuditRows(w) == Len(authAudit[w]) + Len(httpAudit)

LoginAnswered(w) == login[w].pc = "done" /\ login[w].logged

C33_CacheNeverPending ==
    /\ [](/\ \A t \in Requests : statusCache[t] # "PENDING"
          /\ \A p \in Pollers : poll[p].source = "cache" =>
                 poll[p].easyPayStatus \notin {"PENDING", "none"})
    /\ [][ /\ \A q \in Pollers :
               (poll[q].pc = "check" /\ poll'[q] # poll[q]) =>
                  /\ (easypay[poll[q].tx] = "PENDING" => poll'[q].source = "request")
                  /\ (poll'[q].source = "cache" =>
                        /\ poll'[q].easyPayStatus = statusCache[poll[q].tx]
                        /\ statusCache' = statusCache)
           /\ \A t \in Requests :
               (statusCache'[t] # statusCache[t] /\ statusCache'[t] # "none") =>
                  /\ statusCache'[t] = easypay[t]
                  /\ easypay[t] # "PENDING"
                  /\ \E p \in Pollers : /\ poll[p].pc = "check" /\ poll[p].tx = t
                                         /\ poll'[p].source = "request"
                                         /\ poll'[p].easyPayStatus = easypay[t]]_vars

\* one poller was answered PENDING by a request while another was answered
\* a non-PENDING status from the cache
C33_Witness ==
    \E p, q \in Pollers :
        /\ poll[p].source = "request" /\ poll[p].easyPayStatus = "PENDING"
        /\ poll[q].source = "cache" /\ poll[q].easyPayStatus # "PENDING"
        /\ poll[q].tx = poll[p].tx

\* C38: a status request for a transaction that belongs to another user is
\* answered not-found without reading the row into the response, without a
\* call to the processor or a cache lookup, and its steps change neither
\* the transaction records, the balances, the cache nor the processor
C38_OwnTransactionOnly ==
    /\ [](\A p \in Pollers :
            (/\ poll[p].tx \in Requests
             /\ transactions[poll[p].tx] # NoRow
             /\ transactions[poll[p].tx].user # poll[p].caller) =>
               /\ poll[p].pc = "done"
               /\ poll[p].resp = "NotFound404"
               /\ poll[p].row = NoRow
               /\ poll[p].source = "none"
               /\ ~poll[p].polled
               /\ ~poll[p].wrote)
    /\ [][\A p \in Pollers :
            (poll'[p] # poll[p] /\ poll'[p].caller \notin Users) =>
               /\ transactions' = transactions
               /\ balance' = balance
               /\ statusCache' = statusCache
               /\ easypay' = easypay]_vars

\* another user asked for a pending transaction that carries a processor id
\* and was answered not-found, while its owner's request was polled
C38_Witness ==
    \E p, q \in Pollers :
        /\ poll[p].caller = OtherUser
        /\ poll[p].tx \in Requests
        /\ transactions[poll[p].tx] # NoRow
        /\ transactions[poll[p].tx].status = "PENDING"
        /\ transactions[poll[p].tx].easypayId # "null"
        /\ poll[p].resp = "NotFound404"
        /\ poll[q].caller = transactions[poll[p].tx].user
        /\ poll[q].tx = poll[p].tx
        /\ poll[q].polled

\* C35 (as claimed): once a transfer or bill payment whose processor call
\* returned an answer with a processor id has been answered, the table holds
\* its record with that id and the owner's balance carries its debit,
\* whatever status the answer had.
C35_AcceptedCommits ==
    \A r \in Requests :
        (/\ req[r].kind \in DebitKinds
         /\ req[r].proc \in ProcStatuses
         /\ req[r].procId # "null"
         /\ req[r].pc = "done")
        => /\ transactions[r] # NoRow
           /\ transactions[r].easypayId = req[r].procId
           /\ balance[req[r].user] =
                 BalanceWithout(req[r].user, {r}) - req[r].amount

\* transfers and bill payments of user u recorded as PENDING or COMPLETED
DebitsInForce(u) ==
    {r \in Requests : /\ transactions[r].user = u
                      /\ transactions[r].type \in DebitKinds
                      /\ transactions[r].status \in {"PENDING", "COMPLETED"}}

\* C36 (as claimed): the committed balance of a user is the initial balance
\* plus the completed deposits minus the transfers and bill payments recorded
\* as PENDING or COMPLETED, so that a FAILED one carries no debit.
C36_FailedHasNoDebit ==
    \A u \in Users :
        balance[u] = InitBalance + SumAmounts(CompletedDeposits(u))
                                 - SumAmounts(DebitsInForce(u))

\* C37 (as claimed): in runs where every login fails its PIN or face check,
\* so that the counter is never reset and counts the failed checks performed
\* and recorded since the start, the counter of a user never exceeds 5.
C37_AtMostFiveFailedChecks ==
    \A u \in Users : failedAttempts[u] <= LOCK_THRESHOLD

\* ------------------------------------------------- the processor's token
REFRESH_MARGIN_MS == 60000

\* C32: a token getAccessToken returned from its cache had at least 60
\* seconds left, counted from the time the client received it, when it was
\* returned; a token it returned otherwise was obtained in that call, and
\* the method's own request is made only with a token in hand; a call that
\* finds no token, or one with less than 60 seconds left, asks for a new one
C32_TokenRefreshedBeforeExpiry ==
    /\ [](\A c \in TokenCallers :
            /\ tokenCall[c].sent => tokenCall[c].token # NoAccessToken
            /\ tokenCall[c].token # NoAccessToken =>
                  IF tokenCall[c].cached
                  THEN tokenEnd[tokenCall[c].token] - tokenCall[c].at >= REFRESH_MARGIN_MS
                  ELSE \E e \in ExpiresIn :
                          tokenEnd[tokenCall[c].token] = tokenCall[c].at + e * 1000)
    /\ [][\A c \in TokenCallers :
            (/\ tokenCall[c].pc \in {"idle", "done"}
             /\ tokenCall'[c] # tokenCall[c]
             /\ \/ svc.accessToken = NoAccessToken
                \/ tokenEnd[svc.accessToken] - clock < REFRESH_MARGIN_MS)
            => tokenCall'[c].pc = "oauth"]_vars

\* one method was given the cached token, and later, when that token had 60
\* seconds or less but more than nothing left, the other method was given
\* a new one
C32_Witness ==
    \E c, d \in TokenCallers :
        /\ tokenCall[c].token # NoAccessToken /\ tokenCall[c].cached
        /\ tokenCall[d].token > tokenCall[c].token /\ ~tokenCall[d].cached
        /\ tokenCall[d].at > tokenCall[c].at
        /\ tokenEnd[tokenCall[c].token] - tokenCall[d].at > 0
        /\ tokenEnd[tokenCall[c].token] - tokenCall[d].at <= REFRESH_MARGIN_MS
        /\ tokenCall[d].sent

\* ------------------------------------------------- fixed-point amounts
RECURSIVE RecordedNet(_)
\* deposits minus transfers and bill payments, as recorded in the rows
RecordedNet(rows) ==
    IF rows = <<>> THEN 0
    ELSE (IF Head(rows).type = "DEPOSIT" THEN Head(rows).amount
          ELSE 0 - Head(rows).amount) + RecordedNet(Tail(rows))

\* C34 (as claimed): after any sequence of operations with amounts the
\* validators accept, the balance is the opening balance plus the recorded
\* amounts of the deposits minus those of the transfers and bill payments.
C34_NoRoundingDrift ==
    account.balance = OpeningBalance + RecordedNet(account.rows)
====
